---- MODULE Spec2Model ----
(***************************************************************************)
(* LDL^T factorization of sparse symmetric matrices (sprs-ldl):            *)
(* LdlSymbolic::new_perm / ldl_symbolic, LdlSymbolic::factor,              *)
(* LdlNumeric::update / ldl_numeric and LdlNumeric::solve.                 *)
(*                                                                         *)
(* Arrays are functions over 0..len-1, as in the source.  The scalar type  *)
(* N is the field of rationals, a value being <<num, den>> in lowest       *)
(* terms with den > 0.                                                     *)
(***************************************************************************)
EXTENDS Integers, Sequences, FiniteSets, TLC

\* ------------------------------------------------------------------------
\* Bounds of the model
\* ------------------------------------------------------------------------
\* largest dimension of the enumerated input matrices
MaxDim == 3
\* stored diagonal values of the enumerated input matrices are 1..MaxVal
MaxVal == 2
\* stored off-diagonal values of the enumerated input matrices are 1..MaxOff
MaxOff == 1
\* right-hand sides of the enumerated solves have entries 0..MaxRhs
MaxRhs == 1
\* the numeric pass is run on matrices of dimension up to MaxNumDim: the
\* exact arithmetic of larger ones leaves the range of the checker's integers
MaxNumDim == 4

\* ------------------------------------------------------------------------
\* The scalar type N (num::traits::Num), exact
\* ------------------------------------------------------------------------
Abs(a) == IF a < 0 THEN 0 - a ELSE a

RECURSIVE GCD(_, _)
GCD(a, b) == IF b = 0 THEN a ELSE GCD(b, a % b)

Norm(n, d) ==
    LET g == GCD(Abs(n), Abs(d))
        s == IF d < 0 THEN 0 - 1 ELSE 1
    IN  <<(s * n) \div g, (s * d) \div g>>

Zero == <<0, 1>>
Rat(i) == <<i, 1>>
RAdd(a, b) == Norm(a[1] * b[2] + b[1] * a[2], a[2] * b[2])
RSub(a, b) == Norm(a[1] * b[2] - b[1] * a[2], a[2] * b[2])
RMul(a, b) == Norm(a[1] * b[1], a[2] * b[2])
\* only used with b # Zero
RDiv(a, b) == Norm(a[1] * b[2], a[2] * b[1])

\* ------------------------------------------------------------------------
\* Compressed sparse column matrices (CsMat).  col[j] is the outer slice j:
\* the sequence of <<inner index, value>> in ascending inner index.
\* ------------------------------------------------------------------------
Absent == <<"absent">>

RECURSIVE DenseCol(_, _, _, _)
DenseCol(d, rows, j, i) ==
    IF i = rows THEN <<>>
    ELSE (IF d[<<i, j>>] = Absent THEN <<>> ELSE <<(<<i, d[<<i, j>>]>>)>>)
         \o DenseCol(d, rows, j, i + 1)

\* the CsMat storing exactly the non-absent entries of the dense table d
CscOfDense(rows, cols, d) ==
    [rows |-> rows, cols |-> cols,
     col |-> [j \in 0..(cols - 1) |-> DenseCol(d, rows, j, 0)]]

\* CsMat::new_csc(shape, indptr, indices, data), integer data
NewCsc(rows, cols, indptr, indices, data) ==
    [rows |-> rows, cols |-> cols,
     col |-> [j \in 0..(cols - 1) |->
                [q \in 1..(indptr[j + 2] - indptr[j + 1]) |->
                    <<indices[indptr[j + 1] + q], Rat(data[indptr[j + 1] + q])>>]]]

\* the stored value at (i, j), or Absent
At(m, i, j) ==
    IF \E q \in 1..Len(m.col[j]) : m.col[j][q][1] = i
    THEN (m.col[j][CHOOSE q \in 1..Len(m.col[j]) : m.col[j][q][1] = i])[2]
    ELSE Absent

\* the value of entry (i, j): the stored value, zero where nothing is stored
Value(m, i, j) == IF At(m, i, j) = Absent THEN Zero ELSE At(m, i, j)

\* the stored locations <<row, col>>
Pattern(m) ==
    UNION {{<<m.col[j][q][1], j>> : q \in 1..Len(m.col[j])} : j \in 0..(m.cols - 1)}

\* sprs::is_symmetric: square, and every stored (i, j) has an equal stored (j, i)
is_symmetric(m) ==
    /\ m.rows = m.cols
    /\ \A j \in 0..(m.cols - 1) : \A q \in 1..Len(m.col[j]) :
          At(m, j, m.col[j][q][1]) = m.col[j][q][2]

\* ------------------------------------------------------------------------
\* Permutations (sprs::Permutation): the index vector and its inverse
\* ------------------------------------------------------------------------
\* Permutation::new(vec)
PermNew(p) ==
    [perm |-> p,
     perm_inv |-> [i \in DOMAIN p |-> CHOOSE j \in DOMAIN p : p[j] = i]]

\* Permutation::inv
PermInv(P) == [perm |-> P.perm_inv, perm_inv |-> P.perm]

\* Permutation::at
PermAt(P, i) == P.perm[i]

\* &perm * &v[..] : the reordered copy, entry i being v[perm.at(i)]
PermMul(P, v) == [i \in DOMAIN v |-> v[PermAt(P, i)]]

\* mat.outer_iterator_perm(perm), k-th item: outer slice perm.at(k) of mat
OuterPerm(m, P, k) == m.col[PermAt(P, k)]

\* vec.iter_perm(q): the items of the slice in storage order, each inner
\* index remapped through q
IterPerm(vec, Q) == [q \in 1..Len(vec) |-> <<PermAt(Q, vec[q][1]), vec[q][2]>>]

\* the bijections of 0..n-1
Perms(n) == {p \in [0..(n - 1) -> 0..(n - 1)] :
                \A i, j \in 0..(n - 1) : p[i] = p[j] => i = j}

\* ------------------------------------------------------------------------
\* Input matrices
\* ------------------------------------------------------------------------
DiagVals == {Rat(v) : v \in 1..MaxVal}
OffVals == {Rat(v) : v \in 1..MaxOff}

\* what an enumerated matrix may hold at location ij
Entry(ij) == {Absent} \cup (IF ij[1] = ij[2] THEN DiagVals ELSE OffVals)

\* the tables over the locations S
Tables(S) == {d \in [S -> {Absent} \cup DiagVals \cup OffVals] :
                 \A ij \in S : d[ij] \in Entry(ij)}

Upper(n) == {ij \in (0..(n - 1)) \X (0..(n - 1)) : ij[1] <= ij[2]}

Mirror(ij) == IF ij[1] <= ij[2] THEN ij ELSE <<ij[2], ij[1]>>

\* every symmetric n x n matrix with entries in Entry
SymMats(n) ==
    {CscOfDense(n, n, [ij \in (0..(n - 1)) \X (0..(n - 1)) |-> u[Mirror(ij)]]) :
        u \in Tables(Upper(n))}

\* every r x c matrix with entries in Entry
AllMats(r, c) ==
    {CscOfDense(r, c, d) : d \in Tables((0..(r - 1)) \X (0..(c - 1)))}

\* the matrix of test permuted_ldl_solve, its permutation and right-hand side
MatB == NewCsc(4, 4, <<0, 2, 4, 6, 8>>, <<0, 3, 1, 2, 1, 2, 0, 3>>,
               <<1, 2, 21, 6, 6, 2, 2, 8>>)
PermB == PermNew([i \in 0..3 |-> <<0, 2, 1, 3>>[i + 1]])
RhsB == [i \in 0..3 |-> Rat(<<9, 60, 18, 34>>[i + 1])]

\* test_mat1, the 10 x 10 matrix of test_factor1, its data scaled by 100
Mat1 == NewCsc(10, 10, <<0, 2, 5, 6, 7, 13, 14, 17, 20, 24, 28>>,
               <<0, 8, 1, 4, 9, 2, 3, 1, 4, 6, 7, 8, 9, 5, 4, 6, 9,
                 4, 7, 8, 0, 4, 7, 8, 1, 4, 6, 9>>,
               <<170, 13, 100, 2, 1, 150, 110, 2, 260, 16,
                 9, 52, 53, 120, 16, 130, 56, 9, 160,
                 11, 13, 52, 11, 140, 1, 53, 56, 310>>)
Perm1 == PermNew([i \in 0..9 |-> i])

\* ------------------------------------------------------------------------
\* State
\* ------------------------------------------------------------------------
VARIABLES
    last_call,        \* the API call made last: "new_perm", "factor",
                      \* "update", "solve"
    pc,               \* where the program is: "new", "sym", "symbolic",
                      \* "num_col", "num_pat", "factorized", "failed"
    err,              \* the panic that ended it, or "none"
    mat,              \* the matrix handed to the running / last operation
    perm,             \* LdlSymbolic.perm
    sym_pattern,      \* the stored locations of the matrix that was analysed
    k,                \* the column being processed
    l_colptr,         \* LdlSymbolic.colptr
    parents,          \* LdlSymbolic.parents
    l_nz,             \* LdlSymbolic.nz
    flag_workspace,   \* LdlSymbolic.flag_workspace
    l_indices,        \* LdlNumeric.l_indices
    l_data,           \* LdlNumeric.l_data
    diag,             \* LdlNumeric.diag
    y_workspace,      \* LdlNumeric.y_workspace
    pattern_workspace,\* LdlNumeric.pattern_workspace, right stack, top first
    rhs,              \* the right-hand side of the last solve
    x,                \* the result of the last solve
    written           \* history: the slots of l_indices and l_data the
                      \* numeric pass that runs, or ran last, has written

\* the triplet matrix and the dense array the conversions work on
VARIABLES
    triplet_mat,      \* the TripletMat: [rows, cols, row_inds, col_inds, data]
    tri_call,         \* the TripletMat method called last
    tri_err,          \* the panic that ended it, or "none"
    converted,        \* what the last to_csc / to_csr returned
    array,            \* the dense array handed to assign_to_dense
    array_before,     \* the same array as it was before the call
    spmat,            \* the sparse matrix handed to assign_to_dense
    dense_call,       \* "assign_to_dense" once it has been called
    dense_err         \* the panic that ended it, or "none"

ldlvars == <<last_call, pc, err, mat, perm, sym_pattern, k, l_colptr, parents,
             l_nz, flag_workspace, l_indices, l_data, diag, y_workspace,
             pattern_workspace, rhs, x, written>>

tripvars == <<triplet_mat, tri_call, tri_err, converted>>

densevars == <<array, array_before, spmat, dense_call, dense_err>>

auxvars == <<tripvars, densevars>>

vars == <<ldlvars, auxvars>>

symvars == <<l_colptr, parents, l_nz, flag_workspace>>
numvars == <<l_indices, l_data, diag, y_workspace, pattern_workspace>>

\* an array that is not allocated
Empty == [i \in {} |-> 0]

\* vec![v; n]
Fill(n, v) == [i \in 0..(n - 1) |-> v]

\* no value: a matrix or array that has not been made
None == [none |-> TRUE]

\* no triplet matrix and no dense array are in use
AuxIdle ==
    /\ triplet_mat = None
    /\ tri_call = "none"
    /\ tri_err = "none"
    /\ converted = None
    /\ array = None
    /\ array_before = None
    /\ spmat = None
    /\ dense_call = "none"
    /\ dense_err = "none"

\* ------------------------------------------------------------------------
\* Elimination tree (linalg::etree::Parents): a parent index per node,
\* Root where the node has none
\* ------------------------------------------------------------------------
Root == 0 - 1

\* ParentsOwned::new(n)
ParentsNew(n) == Fill(n, Root)

\* set_root(n)
set_root(p, i) == [p EXCEPT ![i] = Root]

\* uproot(child, parent): gives a parent to a root, leaves any other node alone
uproot(p, child, parent) ==
    IF p[child] = Root THEN [p EXCEPT ![child] = parent] ELSE p

\* get_parent(i)
get_parent(p, i) == p[i]

\* nb_nodes()
nb_nodes(p) == Cardinality(DOMAIN p)

\* ------------------------------------------------------------------------
\* ldl_symbolic
\* ------------------------------------------------------------------------
\* the walk that gives every visited node the parent kk, a root or not
RECURSIVE SymWalkAssign(_, _, _)
SymWalkAssign(s, i, kk) ==
    IF s.flag[i] # kk
    THEN LET p2 == [s.parents EXCEPT ![i] = kk]
         IN  SymWalkAssign([parents |-> p2,
                            l_nz |-> [s.l_nz EXCEPT ![i] = @ + 1],
                            flag |-> [s.flag EXCEPT ![i] = kk]],
                           get_parent(p2, i), kk)
    ELSE s

\* lines 333-338: the walk up the tree from i, for column kk;
\* s = [parents, l_nz, flag]
RECURSIVE SymWalk(_, _, _)
SymWalk(s, i, kk) ==
    IF s.flag[i] # kk
    THEN LET p2 == uproot(s.parents, i, kk)
         IN  SymWalk([parents |-> p2,
                      l_nz |-> [s.l_nz EXCEPT ![i] = @ + 1],
                      flag |-> [s.flag EXCEPT ![i] = kk]],
                     get_parent(p2, i), kk)
    ELSE s

\* the entries of the column walked from whatever their inner index
RECURSIVE SymEntriesAll(_, _, _, _)
SymEntriesAll(s, vec, q, kk) ==
    IF q > Len(vec) THEN s
    ELSE SymEntriesAll(SymWalk(s, vec[q][1], kk), vec, q + 1, kk)

\* lines 329-340: the entries of the column from position q on
RECURSIVE SymEntries(_, _, _, _)
SymEntries(s, vec, q, kk) ==
    IF q > Len(vec) THEN s
    ELSE LET i == vec[q][1]
         IN  SymEntries(IF i < kk THEN SymWalk(s, i, kk) ELSE s, vec, q + 1, kk)

\* lines 323-341, one iteration: column kk of the permuted matrix
SymColumnOf(s, m, P, kk) ==
    SymEntries([parents |-> set_root(s.parents, kk),
                l_nz |-> [s.l_nz EXCEPT ![kk] = 0],
                flag |-> [s.flag EXCEPT ![kk] = kk]],
               IterPerm(OuterPerm(m, P, kk), PermInv(P)), 1, kk)

\* lines 343-348: the exclusive prefix sum of the counts
RECURSIVE PrefixSum(_, _)
PrefixSum(nz, j) == IF j = 0 THEN 0 ELSE PrefixSum(nz, j - 1) + nz[j - 1]

\* the inclusive prefix sum: each pointer taken after its own column
ColPtrInclusive(nz, n) ==
    [j \in 0..n |-> IF j = n THEN PrefixSum(nz, n) ELSE PrefixSum(nz, j + 1)]

ColPtrOf(nz, n) == [j \in 0..n |-> PrefixSum(nz, j)]

\* new_perm with the symmetry check made before the squareness assertion
NewPermSymmetryFirst ==
    /\ pc = "new"
    /\ IF ~is_symmetric(mat)
       THEN /\ pc' = "failed"
            /\ err' = "NotSymmetric"
            /\ UNCHANGED <<k, symvars>>
       ELSE IF mat.rows # mat.cols
       THEN /\ pc' = "failed"
            /\ err' = "NotSquare"
            /\ UNCHANGED <<k, symvars>>
       ELSE /\ pc' = "sym"
            /\ err' = "none"
            /\ k' = 0
            /\ l_colptr' = Fill(mat.cols + 1, 0)
            /\ parents' = ParentsNew(mat.cols)
            /\ l_nz' = Fill(mat.cols, 0)
            /\ flag_workspace' = Fill(mat.cols, 0)
    /\ last_call' = "new_perm"
    /\ UNCHANGED <<mat, perm, sym_pattern, numvars, rhs, x>>
    /\ UNCHANGED written
    /\ UNCHANGED auxvars

\* LdlSymbolic::new_perm up to the first column of ldl_symbolic: the
\* squareness assertion, the allocations, the symmetry check.  The vectors
\* allocated before a failing symmetry check are dropped by the panic.
NewPerm ==
    /\ pc = "new"
    /\ IF mat.rows # mat.cols
       THEN /\ pc' = "failed"
            /\ err' = "NotSquare"
            /\ UNCHANGED <<k, symvars>>
       ELSE IF ~is_symmetric(mat)
       THEN /\ pc' = "failed"
            /\ err' = "NotSymmetric"
            /\ UNCHANGED <<k, symvars>>
       ELSE /\ pc' = "sym"
            /\ err' = "none"
            /\ k' = 0
            /\ l_colptr' = Fill(mat.cols + 1, 0)
            /\ parents' = ParentsNew(mat.cols)
            /\ l_nz' = Fill(mat.cols, 0)
            /\ flag_workspace' = Fill(mat.cols, 0)
    /\ last_call' = "new_perm"
    /\ UNCHANGED <<mat, perm, sym_pattern, numvars, rhs, x>>
    /\ UNCHANGED written
    /\ UNCHANGED auxvars

\* ldl_symbolic, one iteration of the column loop
SymColumn ==
    /\ pc = "sym"
    /\ k < mat.cols
    /\ LET s == SymColumnOf([parents |-> parents, l_nz |-> l_nz,
                             flag |-> flag_workspace], mat, perm, k)
       IN  /\ parents' = s.parents
           /\ l_nz' = s.l_nz
           /\ flag_workspace' = s.flag
    /\ k' = k + 1
    /\ UNCHANGED <<last_call, pc, err, mat, perm, sym_pattern, l_colptr,
                   numvars, rhs, x>>
    /\ UNCHANGED written
    /\ UNCHANGED auxvars

\* ldl_symbolic after the column loop, and the construction of LdlSymbolic
SymFinish ==
    /\ pc = "sym"
    /\ k = mat.cols
    /\ l_colptr' = ColPtrOf(l_nz, mat.rows)
    /\ pc' = "symbolic"
    /\ sym_pattern' = Pattern(mat)
    /\ UNCHANGED <<last_call, err, mat, perm, k, parents, l_nz,
                   flag_workspace, numvars, rhs, x>>
    /\ UNCHANGED written
    /\ UNCHANGED auxvars

\* ------------------------------------------------------------------------
\* DStack: the left stack is a sequence in push order, the right stack a
\* sequence with its top first (the order iter_right yields)
\* ------------------------------------------------------------------------
push_left(left, v) == Append(left, v)

push_right(right, v) == <<v>> \o right

\* pops the left stack onto the right one, one value at a time
RECURSIVE push_left_on_right(_, _)
push_left_on_right(left, right) ==
    IF left = <<>> THEN right
    ELSE push_left_on_right(SubSeq(left, 1, Len(left) - 1),
                            push_right(right, left[Len(left)]))

\* ------------------------------------------------------------------------
\* ldl_numeric.  w = [flag, y, l_nz, l_indices, l_data, diag, pat, st] is
\* the storage the pass works on; st is "ok" or the panic that stopped it.
\* Every index into a slice is bounds-checked, as the build checks it.
\* ------------------------------------------------------------------------
\* lines 385-389: the walk up the tree from i; r = [w, left]
RECURSIVE NumWalk(_, _, _, _)
NumWalk(r, par, i, kk) ==
    IF r.w.flag[i] = kk THEN r
    ELSE LET r2 == [w |-> [r.w EXCEPT !.flag[i] = kk],
                    left |-> push_left(r.left, i)]
         IN  IF get_parent(par, i) = Root
             THEN [r2 EXCEPT !.w.st = "NoParent"]
             ELSE NumWalk(r2, par, get_parent(par, i), kk)

\* a sequence, last element first
RECURSIVE Reversed(_)
Reversed(q) == IF q = <<>> THEN <<>> ELSE Append(Reversed(Tail(q)), Head(q))

\* the entries scattered with each walked path put on the pattern from the
\* top of the left stack down, i.e. ancestors before descendants
RECURSIVE NumEntriesReversed(_, _, _, _, _)
NumEntriesReversed(w, par, vec, q, kk) ==
    IF q > Len(vec) \/ w.st # "ok" THEN w
    ELSE LET i == vec[q][1]
         IN  IF ~(i <= kk) THEN NumEntriesReversed(w, par, vec, q + 1, kk)
             ELSE LET w1 == [w EXCEPT !.y[i] = RAdd(@, vec[q][2])]
                      r == NumWalk([w |-> w1, left |-> <<>>], par, i, kk)
                      w2 == IF r.w.st # "ok" THEN r.w
                            ELSE [r.w EXCEPT !.pat = Reversed(r.left) \o @]
                  IN  NumEntriesReversed(w2, par, vec, q + 1, kk)

\* the entries of the column scattered whatever their inner index
RECURSIVE NumEntriesAll(_, _, _, _, _)
NumEntriesAll(w, par, vec, q, kk) ==
    IF q > Len(vec) \/ w.st # "ok" THEN w
    ELSE LET i == vec[q][1]
             w1 == [w EXCEPT !.y[i] = RAdd(@, vec[q][2])]
             r == NumWalk([w |-> w1, left |-> <<>>], par, i, kk)
             w2 == IF r.w.st # "ok" THEN r.w
                   ELSE [r.w EXCEPT !.pat = push_left_on_right(r.left, @)]
         IN  NumEntriesAll(w2, par, vec, q + 1, kk)

\* lines 380-391: the entries of the column from position q on
RECURSIVE NumEntries(_, _, _, _, _)
NumEntries(w, par, vec, q, kk) ==
    IF q > Len(vec) \/ w.st # "ok" THEN w
    ELSE LET i == vec[q][1]
         IN  IF ~(i <= kk) THEN NumEntries(w, par, vec, q + 1, kk)
             ELSE LET w1 == [w EXCEPT !.y[i] = RAdd(@, vec[q][2])]
                      r == NumWalk([w |-> w1, left |-> <<>>], par, i, kk)
                      w2 == IF r.w.st # "ok" THEN r.w
                            ELSE [r.w EXCEPT
                                    !.pat = push_left_on_right(r.left, @)]
                  IN  NumEntries(w2, par, vec, q + 1, kk)

\* the reset that leaves the fill counter of column kk as it was
NumResetKeepNz(w, kk) ==
    [w EXCEPT !.flag[kk] = kk, !.y[kk] = Zero, !.pat = <<>>]

\* lines 375-378: column kk is marked visited, its accumulator entry, its
\* fill counter and the pattern are cleared
NumReset(w, kk) ==
    [w EXCEPT !.flag[kk] = kk, !.y[kk] = Zero, !.l_nz[kk] = 0, !.pat = <<>>]

\* the scattered diagonal added to what diag[kk] holds
NumSetPivotAdding(w, kk) ==
    [w EXCEPT !.diag[kk] = RAdd(@, w.y[kk]), !.y[kk] = Zero]

\* lines 395-396: the pivot starts as the scattered diagonal, whose
\* accumulator entry is cleared
NumSetPivot(w, kk) == [w EXCEPT !.diag[kk] = w.y[kk], !.y[kk] = Zero]

\* lines 375-396: the pattern of row kk of L and the scattered column
NumScatterOf(w, m, P, par, kk) ==
    LET w0 == NumReset(w, kk)
        w1 == NumEntries(w0, par, IterPerm(OuterPerm(m, P, kk), PermInv(P)),
                         1, kk)
    IN  IF w1.st # "ok" THEN w1
        ELSE NumSetPivot(w1, kk)

\* lines 401-410: the multiply-accumulate over the stored column i, from p
RECURSIVE NumAxpy(_, _, _, _)
NumAxpy(w, p, p2, yi) ==
    IF p >= p2 THEN w
    ELSE IF p \notin DOMAIN w.l_indices THEN [w EXCEPT !.st = "OutOfBounds"]
    ELSE NumAxpy([w EXCEPT !.y[w.l_indices[p]] = RSub(@, RMul(w.l_data[p], yi))],
                 p + 1, p2, yi)

\* the top of the pattern taken, its accumulator entry left as it is
NumTakeKeepY(w, i) == [w EXCEPT !.pat = Tail(@)]

\* lines 397-399: the top i of the pattern is taken and, yi being read,
\* its accumulator entry is cleared
NumTake(w, i) == [w EXCEPT !.y[i] = Zero, !.pat = Tail(@)]

\* the pivot update without the factor yi
NumPivotNoYi(d, l_ki, yi) == RSub(d, l_ki)

\* line 412: diag[k] - l_ki * yi
NumPivot(d, l_ki, yi) == RSub(d, RMul(l_ki, yi))

\* the entry appended to column i with the column's own index as its row
NumAppendColumn(w, p2, i, kk, l_ki) ==
    [w EXCEPT !.l_indices[p2] = i, !.l_data[p2] = l_ki, !.l_nz[i] = @ + 1]

\* lines 413-415: the entry (kk, l_ki) is appended to column i of L
NumAppend(w, p2, i, kk, l_ki) ==
    [w EXCEPT !.l_indices[p2] = kk, !.l_data[p2] = l_ki, !.l_nz[i] = @ + 1]

\* lines 397-416, one iteration: the top of the pattern is consumed
NumPatternOf(w, colptr, kk) ==
    LET i == Head(w.pat)
        yi == w.y[i]
        p2 == colptr[i] + w.l_nz[i]
        w1 == NumAxpy(NumTake(w, i), colptr[i], p2, yi)
    IN  IF w1.st # "ok" THEN w1
        ELSE IF w1.diag[i] = Zero THEN [w1 EXCEPT !.st = "DivisionByZero"]
        ELSE LET l_ki == RDiv(yi, w1.diag[i])
                 w2 == [w1 EXCEPT !.diag[kk] = NumPivot(@, l_ki, yi)]
             IN  IF p2 \notin DOMAIN w2.l_indices
                 THEN [w2 EXCEPT !.st = "OutOfBounds"]
                 ELSE NumAppend(w2, p2, i, kk, l_ki)

\* lines 401-410, one iteration: the slots of l_indices and l_data the
\* multiply-accumulate over the column on top of the pattern reads
NumReads(w, colptr) ==
    colptr[Head(w.pat)]..(colptr[Head(w.pat)] + w.l_nz[Head(w.pat)] - 1)

\* lines 413-414, one iteration: the slot of l_indices and l_data the
\* iteration writes, if it gets that far
NumWrites(w, colptr, kk) ==
    IF NumPatternOf(w, colptr, kk).st = "ok"
    THEN {colptr[Head(w.pat)] + w.l_nz[Head(w.pat)]}
    ELSE {}

\* no pivot check
NumCheckNever(w, kk) == w

\* lines 417-419: the pivot check that ends column kk
NumCheckOf(w, kk) ==
    IF w.diag[kk] = Zero THEN [w EXCEPT !.st = "SingularMatrix"] ELSE w

\* lines 370-420, one iteration: column kk from its pattern on
RECURSIVE NumPatternLoop(_, _, _)
NumPatternLoop(w, colptr, kk) ==
    IF w.st # "ok" THEN w
    ELSE IF w.pat = <<>> THEN NumCheckOf(w, kk)
    ELSE NumPatternLoop(NumPatternOf(w, colptr, kk), colptr, kk)

\* ldl_numeric: the columns from kk on
RECURSIVE ldl_numeric(_, _, _, _, _, _)
ldl_numeric(w, m, P, par, colptr, kk) ==
    IF kk = m.cols \/ w.st # "ok" THEN w
    ELSE ldl_numeric(NumPatternLoop(NumScatterOf(w, m, P, par, kk), colptr, kk),
                     m, P, par, colptr, kk + 1)

\* ldl_symbolic: the columns from kk on
RECURSIVE ldl_symbolic(_, _, _, _)
ldl_symbolic(s, m, P, kk) ==
    IF kk = m.cols THEN s
    ELSE ldl_symbolic(SymColumnOf(s, m, P, kk), m, P, kk + 1)

\* LdlNumeric::new_perm(m, P) for a square symmetric m: the analysis, the
\* allocations of factor, the numeric pass; the storage it ends with
LdlNumericNewPerm(m, P) ==
    LET n == m.cols
        s == ldl_symbolic([parents |-> ParentsNew(n), l_nz |-> Fill(n, 0),
                           flag |-> Fill(n, 0)], m, P, 0)
        cp == ColPtrOf(s.l_nz, n)
    IN  ldl_numeric([flag |-> s.flag, y |-> Fill(n, Zero), l_nz |-> s.l_nz,
                     l_indices |-> Fill(cp[n], 0),
                     l_data |-> Fill(cp[n], Zero), diag |-> Fill(n, Zero),
                     pat |-> <<>>, st |-> "ok"],
                    m, P, s.parents, cp, 0)

\* the storage as the variables hold it
Work ==
    [flag |-> flag_workspace, y |-> y_workspace, l_nz |-> l_nz,
     l_indices |-> l_indices, l_data |-> l_data, diag |-> diag,
     pat |-> pattern_workspace, st |-> "ok"]

\* the variables take the storage w; a panic ends the program
Store(w, next) ==
    /\ flag_workspace' = w.flag
    /\ y_workspace' = w.y
    /\ l_nz' = w.l_nz
    /\ l_indices' = w.l_indices
    /\ l_data' = w.l_data
    /\ diag' = w.diag
    /\ pattern_workspace' = w.pat
    /\ pc' = IF w.st = "ok" THEN next ELSE "failed"
    /\ err' = IF w.st = "ok" THEN err ELSE w.st

\* factor with the checks of new_perm made on its matrix
FactorChecking(m) ==
    /\ pc = "symbolic"
    /\ l_indices' = Fill(l_colptr[nb_nodes(parents)], 0)
    /\ l_data' = Fill(l_colptr[nb_nodes(parents)], Zero)
    /\ diag' = Fill(nb_nodes(parents), Zero)
    /\ y_workspace' = Fill(nb_nodes(parents), Zero)
    /\ pattern_workspace' = <<>>
    /\ mat' = m
    /\ pc' = IF is_symmetric(m) THEN "num_col" ELSE "failed"
    /\ err' = IF m.rows # m.cols THEN "NotSquare"
              ELSE IF ~is_symmetric(m) THEN "NotSymmetric" ELSE err
    /\ k' = 0
    /\ last_call' = "factor"
    /\ UNCHANGED <<perm, sym_pattern, symvars, rhs, x>>
    /\ written' = {}
    /\ UNCHANGED auxvars

\* LdlSymbolic::factor(m): the allocations, then update(m) begins
Factor(m) ==
    /\ pc = "symbolic"
    /\ l_indices' = Fill(l_colptr[nb_nodes(parents)], 0)
    /\ l_data' = Fill(l_colptr[nb_nodes(parents)], Zero)
    /\ diag' = Fill(nb_nodes(parents), Zero)
    /\ y_workspace' = Fill(nb_nodes(parents), Zero)
    /\ pattern_workspace' = <<>>
    /\ mat' = m
    /\ pc' = "num_col"
    /\ k' = 0
    /\ last_call' = "factor"
    /\ UNCHANGED <<err, perm, sym_pattern, symvars, rhs, x>>
    /\ written' = {}
    /\ UNCHANGED auxvars

\* LdlNumeric::update(m) begins
Update(m) ==
    /\ pc = "factorized"
    /\ mat' = m
    /\ pc' = "num_col"
    /\ k' = 0
    /\ rhs' = Empty
    /\ x' = Empty
    /\ last_call' = "update"
    /\ UNCHANGED <<err, perm, sym_pattern, symvars, numvars>>
    /\ written' = {}
    /\ UNCHANGED auxvars

\* ldl_numeric, column k up to the 'pattern loop
NumScatter ==
    /\ pc = "num_col"
    /\ Store(NumScatterOf(Work, mat, perm, parents, k), "num_pat")
    /\ UNCHANGED <<last_call, mat, perm, sym_pattern, k, l_colptr, parents,
                   rhs, x>>
    /\ UNCHANGED written
    /\ UNCHANGED auxvars

\* ldl_numeric, one iteration of the 'pattern loop
NumPattern ==
    /\ pc = "num_pat"
    /\ pattern_workspace # <<>>
    /\ Store(NumPatternOf(Work, l_colptr, k), "num_pat")
    /\ UNCHANGED <<last_call, mat, perm, sym_pattern, k, l_colptr, parents,
                   rhs, x>>
    /\ written' = written \cup NumWrites(Work, l_colptr, k)
    /\ UNCHANGED auxvars

\* ldl_numeric, the end of column k: the pivot check, the next column
NumCheck ==
    /\ pc = "num_pat"
    /\ pattern_workspace = <<>>
    /\ LET w == NumCheckOf(Work, k)
       IN  /\ Store(w, IF k + 1 = mat.cols THEN "factorized" ELSE "num_col")
           /\ k' = IF w.st = "ok" THEN k + 1 ELSE k
    /\ UNCHANGED <<last_call, mat, perm, sym_pattern, l_colptr, parents,
                   rhs, x>>
    /\ UNCHANGED written
    /\ UNCHANGED auxvars

\* ------------------------------------------------------------------------
\* Solves.  l_view() is L as the CSC matrix (l_colptr, l_indices, l_data).
\* ------------------------------------------------------------------------
\* the entries of the column added to x instead of subtracted from it
RECURSIVE LsolveColAdding(_, _, _, _, _, _)
LsolveColAdding(v, ind, dat, p, pend, x_col) ==
    IF p >= pend THEN v
    ELSE LsolveColAdding([v EXCEPT ![ind[p]] = RAdd(@, RMul(dat[p], x_col))],
                         ind, dat, p + 1, pend, x_col)

\* ldl_lsolve, lines 431-433: the entries of column c from position p on
RECURSIVE LsolveCol(_, _, _, _, _, _)
LsolveCol(v, ind, dat, p, pend, x_col) ==
    IF p >= pend THEN v
    ELSE LsolveCol([v EXCEPT ![ind[p]] = RSub(@, RMul(dat[p], x_col))],
                   ind, dat, p + 1, pend, x_col)

\* ldl_lsolve: the columns from c on, ascending
RECURSIVE ldl_lsolve(_, _, _, _, _)
ldl_lsolve(cp, ind, dat, v, c) ==
    IF c >= Cardinality(DOMAIN v) THEN v
    ELSE ldl_lsolve(cp, ind, dat,
                    LsolveCol(v, ind, dat, cp[c], cp[c + 1], v[c]), c + 1)

\* linalg::diag_solve: v[i] / d[i]
diag_solve(d, v) == [i \in DOMAIN v |-> RDiv(v[i], d[i])]

\* x_outer after the entries of the column but the last one
RECURSIVE LtsolveColSkipLast(_, _, _, _, _, _)
LtsolveColSkipLast(v, ind, dat, p, pend, x_outer) ==
    IF p + 1 >= pend THEN x_outer
    ELSE LtsolveColSkipLast(v, ind, dat, p + 1, pend,
                            RSub(x_outer, RMul(dat[p], v[ind[p]])))

\* ldl_ltsolve, lines 445-447: x_outer after the entries from position p on
RECURSIVE LtsolveCol(_, _, _, _, _, _)
LtsolveCol(v, ind, dat, p, pend, x_outer) ==
    IF p >= pend THEN x_outer
    ELSE LtsolveCol(v, ind, dat, p + 1, pend,
                    RSub(x_outer, RMul(dat[p], v[ind[p]])))

\* ldl_ltsolve: the columns from c down to 0
RECURSIVE ldl_ltsolve(_, _, _, _, _)
ldl_ltsolve(cp, ind, dat, v, c) ==
    IF c < 0 THEN v
    ELSE ldl_ltsolve(cp, ind, dat,
                     [v EXCEPT ![c] = LtsolveCol(v, ind, dat, cp[c], cp[c + 1],
                                                 v[c])],
                     c - 1)

\* solve with the permutation, not its inverse, applied to the result
SolveOfNoInv(P, cp, ind, dat, d, b) ==
    LET x0 == PermMul(P, b)
        x1 == ldl_lsolve(cp, ind, dat, x0, 0)
        x2 == diag_solve(d, x1)
        x3 == ldl_ltsolve(cp, ind, dat, x2, Cardinality(DOMAIN b) - 1)
    IN  PermMul(P, x3)

\* LdlNumeric::solve(b)
SolveOf(P, cp, ind, dat, d, b) ==
    LET x0 == PermMul(P, b)
        x1 == ldl_lsolve(cp, ind, dat, x0, 0)
        x2 == diag_solve(d, x1)
        x3 == ldl_ltsolve(cp, ind, dat, x2, Cardinality(DOMAIN b) - 1)
    IN  PermMul(PermInv(P), x3)

\* solve leaving its result in the accumulator workspace as well
SolveInWorkspace(b) ==
    /\ pc = "factorized"
    /\ rhs' = b
    /\ x' = SolveOf(perm, l_colptr, l_indices, l_data, diag, b)
    /\ y_workspace' = x'
    /\ last_call' = "solve"
    /\ UNCHANGED <<pc, err, mat, perm, sym_pattern, k, symvars, l_indices,
                   l_data, diag, pattern_workspace>>
    /\ UNCHANGED written
    /\ UNCHANGED auxvars

\* a call of LdlNumeric::solve(b)
Solve(b) ==
    /\ pc = "factorized"
    /\ rhs' = b
    /\ x' = SolveOf(perm, l_colptr, l_indices, l_data, diag, b)
    /\ last_call' = "solve"
    /\ UNCHANGED <<pc, err, mat, perm, sym_pattern, k, symvars, numvars>>
    /\ UNCHANGED written
    /\ UNCHANGED auxvars

\* ------------------------------------------------------------------------
\* Inputs and specification
\* ------------------------------------------------------------------------
\* the matrices and permutations LdlSymbolic::new_perm is called with
Inputs ==
    UNION {{[mat |-> m, perm |-> PermNew(p)] :
               m \in SymMats(n), p \in Perms(n)} : n \in 1..MaxDim}
    \cup {[mat |-> m, perm |-> PermNew(p)] :
               m \in AllMats(2, 2), p \in Perms(2)}
    \cup {[mat |-> m, perm |-> PermNew(p)] :
               m \in AllMats(1, 2), p \in Perms(2)}
    \cup {[mat |-> m, perm |-> PermNew(p)] :
               m \in AllMats(2, 1), p \in Perms(1)}
    \cup {[mat |-> MatB, perm |-> PermB], [mat |-> Mat1, perm |-> Perm1]}

\* the symmetric matrices that store exactly the analysed locations
SamePattern ==
    LET n == nb_nodes(parents)
        grid == (0..(n - 1)) \X (0..(n - 1))
    IN  IF n > MaxDim THEN {}
        ELSE {CscOfDense(n, n, [ij \in grid |->
                  IF ij \in sym_pattern THEN u[Mirror(ij)] ELSE Absent]) :
                u \in {d \in Tables({ij \in sym_pattern : ij[1] <= ij[2]}) :
                          \A ij \in DOMAIN d : d[ij] # Absent}}

\* the matrices factor is called with: the analysed one (LdlNumeric::new_perm)
\* or another of its pattern
FactorMats ==
    IF nb_nodes(parents) > MaxNumDim THEN {} ELSE {mat} \cup SamePattern

\* the symmetric matrices of dimension n whose diagonal is fully stored
FullDiag(n) ==
    {CscOfDense(n, n, [ij \in (0..(n - 1)) \X (0..(n - 1)) |->
                          IF ij[1] = ij[2] THEN Rat(MaxVal) ELSE u[Mirror(ij)]]) :
        u \in [{ij \in Upper(n) : ij[1] < ij[2]} -> {Absent} \cup OffVals]}

\* m without the entries below, or above, the diagonal
UpperPart(m) ==
    [m EXCEPT !.col = [j \in DOMAIN m.col |->
                          SelectSeq(m.col[j], LAMBDA e : e[1] <= j)]]
LowerPart(m) ==
    [m EXCEPT !.col = [j \in DOMAIN m.col |->
                          SelectSeq(m.col[j], LAMBDA e : e[1] >= j)]]

\* square matrices of the analysed dimension, of any pattern, symmetric or
\* not, that factor and update may be handed
AnyMats ==
    IF nb_nodes(parents) > MaxDim THEN {}
    ELSE UNION {{m, UpperPart(m), LowerPart(m)} :
                   m \in FullDiag(nb_nodes(parents))}

\* new_perm called on matrices with a full diagonal, and on ones it rejects
InputsAny ==
    UNION {{[mat |-> m, perm |-> PermNew(p)] :
               m \in FullDiag(n), p \in Perms(n)} : n \in 2..MaxDim}
    \cup {[mat |-> m, perm |-> PermNew(p)] :
               m \in AllMats(2, 2), p \in Perms(2)}
    \cup {[mat |-> m, perm |-> PermNew(p)] :
               m \in AllMats(1, 2), p \in Perms(2)}

\* the right-hand sides solve is called with
Rhs ==
    LET n == nb_nodes(parents)
    IN  IF n <= MaxDim THEN [0..(n - 1) -> {Rat(v) : v \in 0..MaxRhs}]
        ELSE IF n = 4 THEN {RhsB} ELSE {}

InitWith(inputs) ==
    /\ \E c \in inputs : mat = c.mat /\ perm = c.perm
    /\ pc = "new"
    /\ last_call = "none"
    /\ err = "none"
    /\ sym_pattern = {}
    /\ k = 0
    /\ l_colptr = Empty
    /\ parents = Empty
    /\ l_nz = Empty
    /\ flag_workspace = Empty
    /\ l_indices = Empty
    /\ l_data = Empty
    /\ diag = Empty
    /\ y_workspace = Empty
    /\ pattern_workspace = <<>>
    /\ rhs = Empty
    /\ x = Empty
    /\ written = {}
    /\ AuxIdle

Init == InitWith(Inputs)

Next ==
    \/ NewPerm
    \/ SymColumn
    \/ SymFinish
    \/ pc = "symbolic" /\ \E m \in FactorMats : Factor(m)
    \/ pc = "factorized" /\ \E m \in SamePattern : Update(m)
    \/ NumScatter
    \/ NumPattern
    \/ NumCheck
    \/ pc = "factorized" /\ \E b \in Rhs : Solve(b)

\* the library used as documented: factor and update are handed symmetric
\* matrices of the analysed pattern
Spec == Init /\ [][Next]_vars

InitAny == InitWith(InputsAny)

NextAny ==
    \/ NewPerm
    \/ SymColumn
    \/ SymFinish
    \/ pc = "symbolic" /\ \E m \in AnyMats : Factor(m)
    \/ pc = "factorized" /\ \E m \in AnyMats : Update(m)
    \/ NumScatter
    \/ NumPattern
    \/ NumCheck
    \/ pc = "factorized" /\ \E b \in Rhs : Solve(b)

\* the library with factor and update handed square matrices of any pattern
SpecAny == InitAny /\ [][NextAny]_vars

\* ------------------------------------------------------------------------
\* ldl_lsolve and ldl_ltsolve called on their own: l is any strictly lower
\* triangular CSC matrix, held as (l_colptr, l_indices, l_data), x starts
\* as the vector rhs, k is the column the loop is at
\* ------------------------------------------------------------------------
\* the values the entries of l are drawn from
LVals == {Rat(0 - 1)} \cup {Rat(v) : v \in 1..MaxVal}

\* the locations below the diagonal
Lower(n) == {ij \in (0..(n - 1)) \X (0..(n - 1)) : ij[1] > ij[2]}

\* every strictly lower triangular n x n matrix with entries in LVals
LowerMats(n) ==
    {CscOfDense(n, n, [ij \in (0..(n - 1)) \X (0..(n - 1)) |->
                          IF ij[1] > ij[2] THEN t[ij] ELSE Absent]) :
        t \in [Lower(n) -> {Absent} \cup LVals]}

\* the stored entries of the outer slices 0..j-1 of m, one after the other
RECURSIVE Flat(_, _)
Flat(m, j) == IF j = 0 THEN <<>> ELSE Flat(m, j - 1) \o m.col[j - 1]

\* CsMat::indptr(), indices(), data(): the raw storage of m
Indptr(m) == [j \in 0..m.cols |-> Len(Flat(m, j))]
Indices(m) == [p \in 0..(Len(Flat(m, m.cols)) - 1) |-> Flat(m, m.cols)[p + 1][1]]
Data(m) == [p \in 0..(Len(Flat(m, m.cols)) - 1) |-> Flat(m, m.cols)[p + 1][2]]

\* the vectors of length n handed to the triangular solves
TriRhs(n) == [0..(n - 1) -> {Rat(v) : v \in 0..MaxVal}]

\* the dimension of the triangular system
TriDim == Cardinality(DOMAIN rhs)

InitTri ==
    /\ \E n \in 1..MaxDim : \E l \in LowerMats(n) : \E b \in TriRhs(n) :
          /\ mat = l
          /\ l_colptr = Indptr(l)
          /\ l_indices = Indices(l)
          /\ l_data = Data(l)
          /\ rhs = b
          /\ x = b
          /\ \/ pc = "lsolve" /\ k = 0 /\ last_call = "ldl_lsolve"
             \/ pc = "ltsolve" /\ k = n - 1 /\ last_call = "ldl_ltsolve"
          /\ perm = PermNew([i \in 0..(n - 1) |-> i])
    /\ err = "none"
    /\ sym_pattern = {}
    /\ parents = Empty
    /\ l_nz = Empty
    /\ flag_workspace = Empty
    /\ diag = Empty
    /\ y_workspace = Empty
    /\ pattern_workspace = <<>>
    /\ written = {}
    /\ AuxIdle

\* ldl_lsolve, lines 429-434: one iteration of the outer loop, columns
\* ascending
LsolveColumn ==
    /\ pc = "lsolve"
    /\ x' = LsolveCol(x, l_indices, l_data, l_colptr[k], l_colptr[k + 1], x[k])
    /\ k' = k + 1
    /\ pc' = IF k + 1 = TriDim THEN "lsolved" ELSE "lsolve"
    /\ UNCHANGED <<last_call, err, mat, perm, sym_pattern, symvars, numvars,
                   rhs>>
    /\ UNCHANGED written
    /\ UNCHANGED auxvars

\* ldl_ltsolve, lines 443-449: one iteration of the outer loop, columns
\* descending
LtsolveColumn ==
    /\ pc = "ltsolve"
    /\ x' = [x EXCEPT ![k] = LtsolveCol(x, l_indices, l_data, l_colptr[k],
                                        l_colptr[k + 1], x[k])]
    /\ k' = k - 1
    /\ pc' = IF k = 0 THEN "ltsolved" ELSE "ltsolve"
    /\ UNCHANGED <<last_call, err, mat, perm, sym_pattern, symvars, numvars,
                   rhs>>
    /\ UNCHANGED written
    /\ UNCHANGED auxvars

NextTri ==
    \/ LsolveColumn
    \/ LtsolveColumn

\* the triangular solves on every strictly lower triangular matrix
SpecTri == InitTri /\ [][NextTri]_vars

\* ------------------------------------------------------------------------
\* Triplet matrices (sparse/triplet.rs).  A Vec is a function over
\* 0..len-1; a compressed matrix is its raw storage
\* [storage, nrows, ncols, indptr, indices, data].
\* ------------------------------------------------------------------------
\* largest number of rows, and of columns, of the enumerated triplet matrices
MaxShape == 2
\* largest number of triplets add_triplet and set_triplet work on
MaxNnz == 3

\* the values of the enumerated triplets
TripVals == {Rat(0 - 1), Rat(0), Rat(1)}

\* Vec::len, Vec::push
VecLen(v) == Cardinality(DOMAIN v)
VecPush(v, e) == [i \in 0..VecLen(v) |-> IF i < VecLen(v) THEN v[i] ELSE e]

\* the ldl variables while no factorization is in use
LdlIdle ==
    /\ last_call = "none" /\ pc = "none" /\ err = "none"
    /\ mat = None /\ perm = None /\ sym_pattern = {} /\ k = 0
    /\ l_colptr = Empty /\ parents = Empty /\ l_nz = Empty
    /\ flag_workspace = Empty /\ l_indices = Empty /\ l_data = Empty
    /\ diag = Empty /\ y_workspace = Empty /\ pattern_workspace = <<>>
    /\ rhs = Empty /\ x = Empty /\ written = {}

\* TripletMat::new(shape), TripletMat::with_capacity(shape, cap)
TripletNew(r, c) ==
    [rows |-> r, cols |-> c, row_inds |-> Empty, col_inds |-> Empty,
     data |-> Empty]

\* transpose_view, lines 256-264
transpose_view(t) ==
    [rows |-> t.cols, cols |-> t.rows, row_inds |-> t.col_inds,
     col_inds |-> t.row_inds, data |-> t.data]

\* find_locations(row, col), lines 245-253
find_locations(t, row, col) ==
    {p \in DOMAIN t.row_inds : t.row_inds[p] = row /\ t.col_inds[p] = col}

\* to_csc, lines 270-273: row_counts[i + 1] += 1 for each row index, an
\* index past the end of row_counts being a panic
RECURSIVE CountRows(_, _, _)
CountRows(t, cnt, p) ==
    IF p = VecLen(t.row_inds) THEN [st |-> "ok", v |-> cnt]
    ELSE IF (t.row_inds[p] + 1) \notin DOMAIN cnt
    THEN [st |-> "OutOfBounds", v |-> cnt]
    ELSE CountRows(t, [cnt EXCEPT ![t.row_inds[p] + 1] = @ + 1], p + 1)

\* to_csc, lines 276-278: indptr[i] += indptr[i - 1] for i from i to n
RECURSIVE CumSum(_, _, _)
CumSum(v, i, n) ==
    IF i > n THEN v ELSE CumSum([v EXCEPT ![i] = @ + v[i - 1]], i + 1, n)

\* to_csc, lines 288-314: the triplets from p on are put in their row's
\* slots, a triplet whose column the row already holds being added to it;
\* c = [indices, data, row_counts]
RECURSIVE ScatterTriplets(_, _, _, _)
ScatterTriplets(t, indptr, c, p) ==
    IF p = VecLen(t.data) THEN c
    ELSE LET val == t.data[p]
             i == t.row_inds[p]
             j == t.col_inds[p]
             start == indptr[i]
             stop == start + c.row_counts[i]
             found == {q \in start..(stop - 1) : c.indices[q] = j}
         IN  IF found # {}
             THEN LET q == CHOOSE q1 \in found : \A q2 \in found : q1 <= q2
                  IN  ScatterTriplets(t, indptr,
                                      [c EXCEPT !.data[q] = RAdd(@, val)], p + 1)
             ELSE ScatterTriplets(t, indptr,
                                  [c EXCEPT !.indices[stop] = j,
                                            !.data[stop] = val,
                                            !.row_counts[i] = @ + 1], p + 1)

\* to_csc, lines 322-325: the entries kk.. of a row are moved down to
\* dst_start; c = [indptr, indices, data]
RECURSIVE MoveRow(_, _, _, _, _)
MoveRow(c, start, dst_start, kk, col_nnz) ==
    IF kk >= col_nnz THEN c
    ELSE MoveRow([c EXCEPT !.indices[dst_start + kk] = c.indices[start + kk],
                           !.data[dst_start + kk] = c.data[start + kk]],
                 start, dst_start, kk + 1, col_nnz)

\* to_csc, lines 317-330: the rows from i on are compressed
RECURSIVE Compress(_, _, _, _, _)
Compress(c, row_counts, dst_start, i, rows) ==
    IF i = rows THEN [c EXCEPT !.indptr[rows] = dst_start]
    ELSE LET start == c.indptr[i]
             col_nnz == row_counts[i]
             c1 == IF start # dst_start
                   THEN MoveRow(c, start, dst_start, 0, col_nnz)
                   ELSE c
         IN  Compress([c1 EXCEPT !.indptr[i] = dst_start], row_counts,
                      dst_start + col_nnz, i + 1, rows)

\* the outer slice an entry of compressed storage belongs to
OuterOf(indptr, p) ==
    CHOOSE i \in 0..(VecLen(indptr) - 2) : indptr[i] <= p /\ p < indptr[i + 1]

\* convert_storage: the entries p.. with inner index j, as <<outer, value>>
RECURSIVE ConvertSlice(_, _, _, _)
ConvertSlice(c, j, p, nnz) ==
    IF p >= nnz THEN <<>>
    ELSE (IF c.indices[p] = j THEN <<(<<OuterOf(c.indptr, p), c.data[p]>>)>>
          ELSE <<>>) \o ConvertSlice(c, j, p + 1, nnz)

\* csmat::raw::convert_storage: the storage of the other orientation, each
\* of its slices in ascending inner index; an inner index outside the shape
\* is an index out of bounds
convert_storage(c, outer_dim, inner_dim) ==
    LET nnz == c.indptr[outer_dim]
    IN  IF \E p \in 0..(nnz - 1) : c.indices[p] >= inner_dim
        THEN [st |-> "OutOfBounds", m |-> None]
        ELSE LET o == [cols |-> inner_dim,
                       col |-> [j \in 0..(inner_dim - 1) |->
                                   ConvertSlice(c, j, 0, nnz)]]
             IN  [st |-> "ok",
                  m |-> [indptr |-> Indptr(o), indices |-> Indices(o),
                         data |-> Data(o)]]

\* TripletMatView::to_csc, lines 267-354
to_csc(t) ==
    LET counted == CountRows(t, Fill(t.rows + 1, 0), 0)
    IN  IF counted.st # "ok" THEN [st |-> counted.st, m |-> None]
        ELSE LET indptr == CumSum(counted.v, 1, t.rows)
                 nnz_max == indptr[t.rows]
                 c == ScatterTriplets(t, indptr,
                                      [indices |-> Fill(nnz_max, 0),
                                       data |-> Fill(nnz_max, Zero),
                                       row_counts |-> Fill(t.rows + 1, 0)], 0)
                 csr == Compress([indptr |-> indptr, indices |-> c.indices,
                                  data |-> c.data], c.row_counts, indptr[0],
                                 0, t.rows)
                 out == convert_storage(csr, t.rows, t.cols)
             IN  IF out.st # "ok" THEN out
                 ELSE [st |-> "ok",
                       m |-> [storage |-> "CSC", nrows |-> t.rows,
                              ncols |-> t.cols, indptr |-> out.m.indptr,
                              indices |-> out.m.indices, data |-> out.m.data]]

\* CsMat::transpose_into: the same arrays read in the other orientation
transpose_into(m) ==
    [m EXCEPT !.storage = IF m.storage = "CSC" THEN "CSR" ELSE "CSC",
              !.nrows = m.ncols, !.ncols = m.nrows]

\* TripletMatView::to_csr, lines 357-362
to_csr(t) ==
    LET res == to_csc(transpose_view(t))
    IN  IF res.st # "ok" THEN res
        ELSE [st |-> "ok", m |-> transpose_into(res.m)]

\* the Vecs of length up to n with elements in S
Vecs(S, n) == UNION {[0..(len - 1) -> S] : len \in 0..n}

\* a Vec holding the elements of the sequence q
VecOf(q) == [i \in 0..(Len(q) - 1) |-> q[i + 1]]

\* the triplets of tests triplet_unordered and triplet_additions (their
\* add_triplet calls in order), and the arguments of test triplet_from_vecs
TripletUnordered ==
    [rows |-> 4, cols |-> 4,
     row_inds |-> VecOf(<<0, 0, 1, 2, 3, 3>>),
     col_inds |-> VecOf(<<1, 0, 0, 3, 3, 2>>),
     data |-> VecOf(<<Rat(2), Rat(1), Rat(3), Rat(4), Rat(6), Rat(5)>>)]
TripletAdditions ==
    [rows |-> 4, cols |-> 4,
     row_inds |-> VecOf(<<0, 0, 3, 1, 2, 3, 3>>),
     col_inds |-> VecOf(<<1, 0, 2, 0, 3, 3, 2>>),
     data |-> VecOf(<<Rat(2), Rat(1), Rat(3), Rat(3), Rat(4), Rat(6), Rat(2)>>)]
TripletFromVecs ==
    [rows |-> 5, cols |-> 4,
     row_inds |-> VecOf(<<0, 0, 1, 2, 3, 3, 4, 4>>),
     col_inds |-> VecOf(<<0, 1, 0, 3, 2, 3, 1, 3>>),
     data |-> VecOf(<<Rat(1), Rat(2), Rat(3), Rat(4), Rat(5), Rat(6), Rat(7),
                      Rat(8)>>)]

\* the arguments from_triplets is called with: every choice of up to two
\* row indices, column indices and values, in range or one past it, and
\* the data of the tests
FromTripletsArgs ==
    {[rows |-> r, cols |-> c, row_inds |-> ri, col_inds |-> ci, data |-> d] :
        r \in 1..MaxShape, c \in 1..MaxShape,
        ri \in Vecs(0..MaxShape, MaxNnz - 1),
        ci \in Vecs(0..MaxShape, MaxNnz - 1),
        d \in Vecs({Rat(0), Rat(1)}, MaxNnz - 1)}
    \cup {TripletUnordered, TripletAdditions, TripletFromVecs}

InitTriplet ==
    /\ LdlIdle
    /\ AuxIdle

\* TripletMat::new(shape)
TripNew(r, c) ==
    /\ tri_call = "none"
    /\ triplet_mat' = TripletNew(r, c)
    /\ tri_call' = "new"
    /\ UNCHANGED <<tri_err, converted, densevars, ldlvars>>

\* TripletMat::with_capacity(shape, cap)
TripWithCapacity(r, c, cap) ==
    /\ tri_call = "none"
    /\ triplet_mat' = TripletNew(r, c)
    /\ tri_call' = "with_capacity"
    /\ UNCHANGED <<tri_err, converted, densevars, ldlvars>>

\* TripletMat::from_triplets(shape, row_inds, col_inds, data), lines 59-81
TripFromTriplets(a) ==
    /\ tri_call = "none"
    /\ tri_call' = "from_triplets"
    /\ IF VecLen(a.row_inds) # VecLen(a.col_inds)
          \/ VecLen(a.data) # VecLen(a.col_inds)
          \/ VecLen(a.row_inds) # VecLen(a.data)
       THEN /\ tri_err' = "all inputs should have the same length"
            /\ UNCHANGED triplet_mat
       ELSE IF ~(\A p \in DOMAIN a.row_inds : a.row_inds[p] < a.rows)
       THEN /\ tri_err' = "row indices should be within shape"
            /\ UNCHANGED triplet_mat
       ELSE IF ~(\A p \in DOMAIN a.col_inds : a.col_inds[p] < a.cols)
       THEN /\ tri_err' = "col indices should be within shape"
            /\ UNCHANGED triplet_mat
       ELSE /\ tri_err' = "none"
            /\ triplet_mat' = a
    /\ UNCHANGED <<converted, densevars, ldlvars>>

\* add_triplet(row, col, val), lines 162-168
TripAdd(row, col, val) ==
    /\ triplet_mat # None
    /\ tri_err = "none"
    /\ VecLen(triplet_mat.data) < MaxNnz
    /\ tri_call' = "add_triplet"
    /\ IF ~(row < triplet_mat.rows)
       THEN /\ tri_err' = "assertion failed: row < self.rows"
            /\ UNCHANGED triplet_mat
       ELSE IF ~(col < triplet_mat.cols)
       THEN /\ tri_err' = "assertion failed: col < self.cols"
            /\ UNCHANGED triplet_mat
       ELSE /\ tri_err' = "none"
            /\ triplet_mat' =
                  [triplet_mat EXCEPT !.row_inds = VecPush(@, row),
                                      !.col_inds = VecPush(@, col),
                                      !.data = VecPush(@, val)]
    /\ converted' = None
    /\ UNCHANGED <<densevars, ldlvars>>

\* set_triplet(TripletIndex(triplet_ind), row, col, val), lines 429-437
TripSet(triplet_ind, row, col, val) ==
    /\ triplet_mat # None
    /\ tri_err = "none"
    /\ VecLen(triplet_mat.data) <= MaxNnz
    /\ tri_call' = "set_triplet"
    /\ IF triplet_ind \notin DOMAIN triplet_mat.row_inds
       THEN /\ tri_err' = "OutOfBounds"
            /\ UNCHANGED triplet_mat
       ELSE /\ tri_err' = "none"
            /\ triplet_mat' =
                  [triplet_mat EXCEPT !.row_inds[triplet_ind] = row,
                                      !.col_inds[triplet_ind] = col,
                                      !.data[triplet_ind] = val]
    /\ converted' = None
    /\ UNCHANGED <<densevars, ldlvars>>

\* to_csc()
TripToCsc ==
    /\ triplet_mat # None
    /\ tri_err = "none"
    /\ tri_call' = "to_csc"
    /\ LET res == to_csc(triplet_mat)
       IN  /\ tri_err' = IF res.st = "ok" THEN "none" ELSE res.st
           /\ converted' = res.m
    /\ UNCHANGED <<triplet_mat, densevars, ldlvars>>

\* to_csr()
TripToCsr ==
    /\ triplet_mat # None
    /\ tri_err = "none"
    /\ tri_call' = "to_csr"
    /\ LET res == to_csr(triplet_mat)
       IN  /\ tri_err' = IF res.st = "ok" THEN "none" ELSE res.st
           /\ converted' = res.m
    /\ UNCHANGED <<triplet_mat, densevars, ldlvars>>

NextTriplet ==
    \/ \E r, c \in 1..MaxShape : TripNew(r, c)
    \/ \E r, c \in 1..MaxShape : \E cap \in 0..MaxNnz :
          TripWithCapacity(r, c, cap)
    \/ tri_call = "none" /\ \E a \in FromTripletsArgs : TripFromTriplets(a)
    \/ triplet_mat # None /\
          \E row \in 0..triplet_mat.rows : \E col \in 0..triplet_mat.cols :
             \E val \in TripVals : TripAdd(row, col, val)
    \/ triplet_mat # None /\
          \E ind \in 0..(MaxNnz - 1) :
             \E row \in 0..triplet_mat.rows : \E col \in 0..triplet_mat.cols :
                \E val \in TripVals : TripSet(ind, row, col, val)
    \/ TripToCsc
    \/ TripToCsr

\* a triplet matrix built, filled, changed and converted
SpecTriplet == InitTriplet /\ [][NextTriplet]_vars

\* ------------------------------------------------------------------------
\* assign_to_dense (sparse/to_dense.rs).  A dense array is
\* [shape |-> <<rows, cols>>, at |-> its entries by <<i, j>>]; shape()[0],
\* the first item of the shape, is shape[1] here.
\* ------------------------------------------------------------------------
\* the raw storage of the CSC matrix m = [rows, cols, col]
RawCsc(m) ==
    [storage |-> "CSC", nrows |-> m.rows, ncols |-> m.cols,
     indptr |-> Indptr(m), indices |-> Indices(m), data |-> Data(m)]

\* the sparse matrices of shape r x c handed to assign_to_dense, in both
\* storages: at each location nothing, a stored zero or a stored one
SparseMats(r, c) ==
    {RawCsc(CscOfDense(r, c, d)) :
        d \in [(0..(r - 1)) \X (0..(c - 1)) -> {Absent, Rat(0), Rat(1)}]}
    \cup {transpose_into(RawCsc(CscOfDense(c, r, d))) :
        d \in [(0..(c - 1)) \X (0..(r - 1)) -> {Absent, Rat(0), Rat(1)}]}

\* the dense arrays of shape r x c: entries zero or five
DenseArrays(r, c) ==
    {[shape |-> <<r, c>>, at |-> a] :
        a \in [(0..(r - 1)) \X (0..(c - 1)) -> {Rat(0), Rat(5)}]}

\* CsMatOwned::eye(n) and eye_csc(n), Array::zeros((r, c)), Array::eye(n)
Eye(n, storage) ==
    [storage |-> storage, nrows |-> n, ncols |-> n,
     indptr |-> [j \in 0..n |-> j], indices |-> [p \in 0..(n - 1) |-> p],
     data |-> [p \in 0..(n - 1) |-> Rat(1)]]
Zeros(r, c) ==
    [shape |-> <<r, c>>, at |-> [ij \in (0..(r - 1)) \X (0..(c - 1)) |-> Rat(0)]]
ArrayEye(n) ==
    [shape |-> <<n, n>>,
     at |-> [ij \in (0..(n - 1)) \X (0..(n - 1)) |->
               IF ij[1] = ij[2] THEN Rat(1) ELSE Rat(0)]]

\* the position in the array of entry ind of lane o along the outer axis:
\* Axis(0) for CSR (the lanes are rows), Axis(1) for CSC (columns)
LanePos(m, o, ind) == IF m.storage = "CSR" THEN <<o, ind>> ELSE <<ind, o>>

\* lines 24-26: the entries p.. of the sparse slice o are written to the
\* dense lane o, an index outside the lane being a panic; d = [at, st]
RECURSIVE AssignSlice(_, _, _, _, _)
AssignSlice(d, m, o, p, pend) ==
    IF p >= pend \/ d.st # "ok" THEN d
    ELSE IF LanePos(m, o, m.indices[p]) \notin DOMAIN d.at
    THEN [d EXCEPT !.st = "OutOfBounds"]
    ELSE AssignSlice([d EXCEPT !.at[LanePos(m, o, m.indices[p])] = m.data[p]],
                     m, o, p + 1, pend)

\* lines 22-27: the zip of the sparse slices and the dense lanes, from
\* pair o on; lanes is the number of pairs
RECURSIVE AssignPairs(_, _, _, _)
AssignPairs(d, m, o, lanes) ==
    IF o >= lanes \/ d.st # "ok" THEN d
    ELSE AssignPairs(AssignSlice(d, m, o, m.indptr[o], m.indptr[o + 1]),
                     m, o + 1, lanes)

\* assign_to_dense(array, spmat), lines 11-28: what the array and the
\* outcome are afterwards
assign_to_dense(a, m) ==
    IF m.ncols # a.shape[1] THEN [at |-> a.at, st |-> "Dimension mismatch"]
    ELSE IF m.nrows # a.shape[1] THEN [at |-> a.at, st |-> "Dimension mismatch"]
    ELSE LET outer == IF m.storage = "CSR" THEN m.nrows ELSE m.ncols
             axis_len == IF m.storage = "CSR" THEN a.shape[1] ELSE a.shape[2]
             lanes == IF outer < axis_len THEN outer ELSE axis_len
         IN  AssignPairs([at |-> a.at, st |-> "ok"], m, 0, lanes)

\* the calls of assign_to_dense: every small array with every small sparse
\* matrix, and the two calls of test to_dense
DenseCalls ==
    {[array |-> a, spmat |-> m] :
        a \in UNION {DenseArrays(r, c) : r \in 1..MaxShape, c \in 1..MaxShape},
        m \in UNION {SparseMats(r, c) : r \in 1..MaxShape, c \in 1..MaxShape}}
    \cup {[array |-> Zeros(3, 3), spmat |-> Eye(3, "CSR")],
          [array |-> Zeros(3, 3), spmat |-> Eye(3, "CSC")]}

InitDense ==
    /\ LdlIdle
    /\ triplet_mat = None /\ tri_call = "none" /\ tri_err = "none"
    /\ converted = None
    /\ \E call \in DenseCalls :
          /\ array = call.array
          /\ array_before = call.array
          /\ spmat = call.spmat
    /\ dense_call = "none"
    /\ dense_err = "none"

\* the call assign_to_dense(array.view_mut(), spmat.view())
AssignToDense ==
    /\ dense_call = "none"
    /\ dense_call' = "assign_to_dense"
    /\ LET d == assign_to_dense(array, spmat)
       IN  /\ array' = [array EXCEPT !.at = d.at]
           /\ dense_err' = IF d.st = "ok" THEN "none" ELSE d.st
    /\ UNCHANGED <<array_before, spmat, tripvars, ldlvars>>

NextDense == AssignToDense

\* one call of assign_to_dense
SpecDense == InitDense /\ [][NextDense]_vars

\* ------------------------------------------------------------------------
\* Notions the properties are stated with
\* ------------------------------------------------------------------------
\* the dimension of the analysed system
Dim == nb_nodes(parents)

Nodes == 0..(Dim - 1)

\* the sum f[lo] + ... + f[hi]
RECURSIVE SumFn(_, _, _)
SumFn(f, lo, hi) == IF lo > hi THEN Zero ELSE RAdd(f[lo], SumFn(f, lo + 1, hi))

\* the slots of column j of L as l_view() exposes it
Slots(j) == l_colptr[j]..(l_colptr[j + 1] - 1)

\* the column a slot of L belongs to
ColOfSlot(p) == CHOOSE j \in Nodes : p \in Slots(j)

\* the entry (i, j) of L: what column j stores for row i
LAt(i, j) ==
    SumFn([p \in Slots(j) |-> IF l_indices[p] = i THEN l_data[p] ELSE Zero],
          l_colptr[j], l_colptr[j + 1] - 1)

\* the entry (i, j) of I + L
UnitL(i, j) == IF i = j THEN Rat(1) ELSE LAt(i, j)

\* the entry (i, j) of (I + L) * D * (I + L)^T
LDLt(i, j) ==
    SumFn([c \in Nodes |-> RMul(RMul(UnitL(i, c), diag[c]), UnitL(j, c))],
          0, Dim - 1)

\* the entry (i, j) of the permuted matrix
Permuted(i, j) == Value(mat, perm.perm[i], perm.perm[j])

\* the entry i of mat * v
MatVec(v, i) ==
    SumFn([c \in Nodes |-> RMul(Value(mat, i, c), v[c])], 0, Dim - 1)

\* the nodes on the tree path from i upwards that lie below kk
RECURSIVE PathBelow(_, _)
PathBelow(i, kk) ==
    IF i = Root \/ i >= kk THEN {} ELSE {i} \cup PathBelow(parents[i], kk)

\* the rows the permuted column kk stores
PermutedRows(m, kk) ==
    {perm.perm_inv[ij[1]] : ij \in {e \in Pattern(m) : e[2] = perm.perm[kk]}}

\* the pattern of row kk of L: the union of the tree paths from the rows
\* i < kk stored in the permuted column kk, up to but excluding kk
RowPattern(m, kk) ==
    UNION {PathBelow(i, kk) : i \in {r \in PermutedRows(m, kk) : r < kk}}

SolveSolves ==
    (pc = "factorized" /\ last_call = "solve") =>
        /\ \A i \in Nodes : MatVec(x, i) = rhs[i]
        /\ (mat = MatB /\ perm = PermB /\ rhs = RhsB) =>
              x = [i \in 0..3 |-> Rat(i + 1)]

\* a solve under a permutation that is not its own inverse, with a nonzero
\* L and a right-hand side that is not constant
SolveSolvesWitness ==
    /\ pc = "factorized"
    /\ last_call = "solve"
    /\ perm.perm # perm.perm_inv
    /\ \E p \in DOMAIN l_data : l_data[p] # Zero
    /\ \E i, j \in Nodes : rhs[i] # rhs[j]
    /\ \E i, j \in Nodes : x[i] # x[j]

\* the solve of test permuted_ldl_solve
SolveScenarioB ==
    /\ pc = "factorized"
    /\ mat = MatB /\ perm = PermB /\ rhs = RhsB
    /\ x = [i \in 0..3 |-> Rat(i + 1)]

\* C3: after ldl_symbolic the column pointers are the exclusive prefix sum of
\* the counts, l_nz[i] counting the columns kk > i whose row pattern holds i;
\* for test_mat1 under the identity they are [0,1,3,3,3,7,7,10,12,13,13].
ColPtrIsPrefixSum ==
    pc = "symbolic" =>
        /\ l_colptr[0] = 0
        /\ \A j \in Nodes : l_colptr[j + 1] = l_colptr[j] + l_nz[j]
        /\ \A i \in Nodes :
              l_nz[i] = Cardinality({kk \in Nodes :
                                        kk > i /\ i \in RowPattern(mat, kk)})
        /\ (mat = Mat1 /\ perm = Perm1) =>
              l_colptr = [j \in 0..10 |->
                            <<0, 1, 3, 3, 3, 7, 7, 10, 12, 13, 13>>[j + 1]]

\* the analysis of test_mat1 has ended, with 13 entries counted for L
ColPtrIsPrefixSumWitness ==
    /\ pc = "symbolic"
    /\ mat = Mat1
    /\ l_colptr[10] = 13
    /\ l_nz[4] = 4

\* the elements of a sequence
Range(q) == {q[i] : i \in 1..Len(q)}

\* C4: on the analysed pattern, every column still to be written in the
\* 'pattern loop has its write position p2 = l_colptr[i] + l_nz[i] below
\* l_colptr[i + 1], no fill counter ever passes its column's slots, and a
\* pass that succeeds leaves l_colptr[i] + l_nz[i] = l_colptr[i + 1] for
\* every column: it fills exactly the slots the analysis allocated.
NumericFillsAllocatedSlots ==
    /\ pc = "num_pat" =>
          \A i \in Range(pattern_workspace) :
             l_colptr[i] + l_nz[i] < l_colptr[i + 1]
    /\ pc \in {"num_col", "num_pat"} =>
          \A i \in Nodes : l_colptr[i] + l_nz[i] <= l_colptr[i + 1]
    /\ pc = "factorized" =>
          \A i \in Nodes : l_colptr[i] + l_nz[i] = l_colptr[i + 1]
    /\ err # "OutOfBounds"

\* an update is in its last column, two columns of L still to be written,
\* the first of them into its second slot
NumericFillsAllocatedSlotsWitness ==
    /\ pc = "num_pat"
    /\ last_call = "update"
    /\ Len(pattern_workspace) = 2
    /\ l_nz[Head(pattern_workspace)] = 1

\* C5: a pass fails with SingularMatrix at the first column k whose pivot is
\* zero once the column is eliminated, later columns being left unprocessed;
\* the pivots of all the columns before the current one are nonzero, the
\* pattern consumed for column k holds only such columns (so every division
\* is by a checked pivot), and after a success no entry of D is zero.
SingularAtFirstZeroPivot ==
    /\ err = "SingularMatrix" =>
          /\ pc = "failed"
          /\ diag[k] = Zero
          /\ \A j \in Nodes : j < k => diag[j] # Zero
          /\ last_call = "factor" => \A j \in Nodes : j > k => diag[j] = Zero
    /\ pc \in {"num_col", "num_pat"} =>
          \A j \in Nodes : j < k => diag[j] # Zero
    /\ pc = "num_pat" => \A i \in Range(pattern_workspace) : i < k
    /\ pc = "factorized" => \A j \in Nodes : diag[j] # Zero
    /\ err # "DivisionByZero"

\* a pass has failed at a column after the first whose diagonal is stored:
\* the elimination made the pivot zero
SingularAtFirstZeroPivotWitness ==
    /\ pc = "failed"
    /\ err = "SingularMatrix"
    /\ k > 0
    /\ k < Dim - 1
    /\ At(mat, perm.perm[k], perm.perm[k]) # Absent

\* C6: new_perm on a matrix that is not square fails with NotSquare, on a
\* square one that is not symmetric with NotSymmetric, and in both cases
\* nothing of the symbolic structure has been allocated or written.
BuildChecksFirst ==
    /\ (last_call = "new_perm" /\ pc # "new" /\ mat.rows # mat.cols) =>
          (pc = "failed" /\ err = "NotSquare")
    /\ (last_call = "new_perm" /\ pc # "new" /\ mat.rows = mat.cols
          /\ ~is_symmetric(mat)) =>
          (pc = "failed" /\ err = "NotSymmetric")
    /\ err \in {"NotSquare", "NotSymmetric"} =>
          /\ l_colptr = Empty /\ parents = Empty /\ l_nz = Empty
          /\ flag_workspace = Empty /\ sym_pattern = {}
          /\ last_call = "new_perm"

\* new_perm has rejected a matrix that is not square
BuildChecksFirstWitness ==
    /\ pc = "failed"
    /\ err = "NotSquare"
    /\ mat.rows # mat.cols
    /\ Pattern(mat) # {}

\* C8: after any sequence of successful factor and update calls on the
\* analysed pattern, L's row indices and values and D are those of a fresh
\* LdlNumeric::new_perm on the last matrix: what earlier passes left in
\* the storage has no influence.
UpdateEqualsFreshFactor ==
    pc = "factorized" =>
        LET f == LdlNumericNewPerm(mat, perm)
        IN  /\ f.st = "ok"
            /\ l_indices = f.l_indices
            /\ l_data = f.l_data
            /\ diag = f.diag

\* an update has succeeded on a matrix whose L has an entry in every slot
\* below the diagonal
UpdateEqualsFreshFactorWitness ==
    /\ pc = "factorized"
    /\ last_call = "update"
    /\ Dim = MaxDim
    /\ \A i, j \in Nodes : i > j => LAt(i, j) # Zero

\* C9: a solve changes nothing of the factorization (column pointers, row
\* indices, values, D, permutation, tree, workspaces), and solving the same
\* right-hand side again returns the same result.
SolveLeavesFactorization ==
    [][last_call' = "solve" =>
          /\ UNCHANGED <<l_colptr, l_indices, l_data, diag, perm, parents,
                         l_nz, flag_workspace, y_workspace, pattern_workspace,
                         mat, pc, err>>
          /\ (last_call = "solve" /\ rhs' = rhs) => x' = x]_vars

\* a solve has returned a nonzero result under a permutation that is not
\* the identity
SolveLeavesFactorizationWitness ==
    /\ pc = "factorized"
    /\ last_call = "solve"
    /\ \E i \in Nodes : perm.perm[i] # i
    /\ \E i \in Nodes : x[i] # Zero
    /\ l_colptr[Dim] > 0

UpdateMismatchNeverAborts ==
    last_call = "update" => err \notin {"NoParent", "OutOfBounds"}

\* C10 as the code has it: the pattern is not compared, and whatever the
\* pattern every access stays within L's arrays: the pattern consumed for
\* column k holds columns below k only, whose write position lies inside
\* l_indices, and no pass ends on an index out of bounds or a division by
\* an unchecked pivot.  (It may end on the tree walk that finds no parent.)
UpdateMismatchStaysInBounds ==
    /\ err \notin {"OutOfBounds", "DivisionByZero"}
    /\ pc = "num_pat" =>
          \A i \in Range(pattern_workspace) :
             /\ i < k
             /\ l_colptr[i] + l_nz[i] \in DOMAIN l_indices
    /\ pc \in {"num_col", "num_pat", "factorized"} =>
          /\ DOMAIN l_indices = 0..(l_colptr[Dim] - 1)
          /\ DOMAIN l_data = 0..(l_colptr[Dim] - 1)

\* an update with another pattern has run to its end, a column of L having
\* been written past the slots the analysis gave it
UpdateMismatchStaysInBoundsWitness ==
    /\ pc = "factorized"
    /\ last_call = "update"
    /\ \A ij \in sym_pattern : At(mat, ij[1], ij[2]) # Absent
    /\ \E i \in Nodes : l_colptr[i] + l_nz[i] > l_colptr[i + 1]

\* an update with another pattern has ended on the tree walk's panic
UpdateMismatchAborted ==
    /\ pc = "failed"
    /\ last_call = "update"
    /\ err = "NoParent"

BelowPermuted(P, n) ==
    {ij \in (0..(n - 1)) \X (0..(n - 1)) : P.perm_inv[ij[1]] > P.perm_inv[ij[2]]}

\* the locations on the permuted diagonal
OnPermuted(n) == {ij \in (0..(n - 1)) \X (0..(n - 1)) : ij[1] = ij[2]}

\* m with the locations S holding what the table t gives them
Replaced(m, S, t) ==
    CscOfDense(m.rows, m.cols,
               [ij \in (0..(m.rows - 1)) \X (0..(m.cols - 1)) |->
                   IF ij \in S THEN t[ij] ELSE At(m, ij[1], ij[2])])

\* the matrices that agree with m outside the locations S: inside, an entry
\* is absent, or stored with one of two values
Variants(m, S) ==
    IF m.cols <= MaxDim
    THEN {Replaced(m, S, t) : t \in [S -> {Absent, Rat(1), Rat(MaxVal + 1)}]}
    ELSE {Replaced(m, S, [ij \in S |-> Absent])}

\* the matrices that agree with m outside the locations S: inside, an entry
\* is absent or stored
PatternVariants(m, S) ==
    IF m.cols <= MaxDim
    THEN {Replaced(m, S, t) : t \in [S -> {Absent, Rat(MaxVal + 1)}]}
    ELSE {Replaced(m, S, [ij \in S |-> Absent])}

\* the analysis of m under P, without the symmetry check
SymbolicOf(m, P) ==
    ldl_symbolic([parents |-> ParentsNew(m.cols), l_nz |-> Fill(m.cols, 0),
                  flag |-> Fill(m.cols, 0)], m, P, 0)

\* C12: the analysis depends only on the entries strictly above the
\* permuted diagonal, the numeric pass only on those on or above it: every
\* matrix that agrees with the analysed one there, whatever it stores
\* elsewhere (the mirrored entries, other values, nothing), has the same
\* parents, counts and column pointers, and the same L, D and outcome.
UpperHalfDecides ==
    /\ pc = "symbolic" =>
          \A m2 \in PatternVariants(mat, BelowPermuted(perm, Dim)
                                            \cup OnPermuted(Dim)) :
             LET s == SymbolicOf(m2, perm)
             IN  /\ s.parents = parents
                 /\ s.l_nz = l_nz
                 /\ ColPtrOf(s.l_nz, Dim) = l_colptr
    /\ (pc = "factorized" /\ Dim <= MaxNumDim) =>
          \A m2 \in Variants(mat, BelowPermuted(perm, Dim)) :
             LET f == LdlNumericNewPerm(m2, perm)
             IN  /\ f.st = "ok"
                 /\ f.l_nz = l_nz
                 /\ f.l_indices = l_indices
                 /\ f.l_data = l_data
                 /\ f.diag = diag
    /\ (pc = "failed" /\ err = "SingularMatrix" /\ last_call = "factor") =>
          \A m2 \in Variants(mat, BelowPermuted(perm, Dim)) :
             LET f == LdlNumericNewPerm(m2, perm)
             IN  /\ f.st = "SingularMatrix"
                 /\ f.diag = diag
                 /\ f.l_data = l_data

\* a factorization has succeeded on a matrix that stores every entry below
\* the permuted diagonal (so that the matrices compared with it differ from
\* it there), under a permutation that is not its own inverse
UpperHalfDecidesWitness ==
    /\ pc = "factorized"
    /\ Dim = MaxDim
    /\ perm.perm # perm.perm_inv
    /\ \A ij \in BelowPermuted(perm, Dim) : At(mat, ij[1], ij[2]) # Absent
    /\ \E m2 \in Variants(mat, BelowPermuted(perm, Dim)) : ~is_symmetric(m2)

\* C17: a parent, once assigned, is never changed and never reset to root
\* by a later step of the analysis (the set_root(k) that starts column k
\* included), and once the analysis has ended no numeric pass, update or
\* solve touches the elimination tree.
ParentAssignedOnce ==
    [][/\ \A i \in DOMAIN parents :
             parents[i] # Root =>
                (i \in DOMAIN parents' /\ parents'[i] = parents[i])
       /\ pc \in {"symbolic", "num_col", "num_pat", "factorized"} =>
             parents' = parents]_vars

\* the analysis, and then an update, have ended; node 0 got its parent 1 in
\* column 1 and was walked over again in column 2, whose walk went on to
\* give node 1 its parent
ParentAssignedOnceWitness ==
    /\ pc = "factorized"
    /\ last_call = "update"
    /\ Dim = 3
    /\ parents[0] = 1
    /\ parents[1] = 2
    /\ 0 \in PermutedRows(mat, 2)
    /\ 1 \notin PermutedRows(mat, 2)

\* the number of parent pointers followed from i until a root is met,
\* counted up to the number of nodes
RECURSIVE Climb(_, _)
Climb(i, steps) ==
    IF parents[i] = Root \/ steps >= Dim THEN steps
    ELSE Climb(parents[i], steps + 1)

\* C18: at every point during and after the analysis the parent pointers
\* are a forest: the parent of node i, if it has one, is a node kk with
\* i < kk < n (and kk is a column the analysis has reached), so the climb
\* from any node meets a root in fewer than n steps.
ForestIsAcyclic ==
    /\ \A i \in DOMAIN parents :
          parents[i] # Root =>
             /\ i < parents[i]
             /\ parents[i] < Dim
             /\ pc = "sym" => parents[i] < k
    /\ \A i \in DOMAIN parents : Climb(i, 0) < Dim

\* the analysis is between two columns, under a permutation that is not
\* the identity: node 0 has its parent, column 2 is still to come
ForestIsAcyclicWitness ==
    /\ pc = "sym"
    /\ k = 2
    /\ Dim = 3
    /\ parents[0] = 1
    /\ \E i \in Nodes : perm.perm[i] # i
    /\ 1 \in PermutedRows(mat, 2)

\* the rows column j of L holds so far in the running pass, for a column
\* j <= k (whose fill counter the pass has reset)
Filled(j) == {l_indices[p] : p \in l_colptr[j]..(l_colptr[j] + l_nz[j] - 1)}

\* the columns the 'pattern loop of column k has consumed: those that
\* hold row k
Consumed == {i \in Nodes : i < k /\ k \in Filled(i)}

\* C19: on the analysed pattern, what the 'pattern loop of column k consumes
\* is the nonzero pattern of row k of L (the tree paths from the stored
\* rows), each index once, all below k, descendants before ancestors: if
\* column j holds row i and both are in the pattern then j comes before i;
\* so every row a consumed column subtracts into is still waiting in the
\* pattern, its accumulator entry not yet read.
PatternIsTopological ==
    pc = "num_pat" =>
        LET pat == pattern_workspace
        IN  /\ \A a, b \in 1..Len(pat) : a # b => pat[a] # pat[b]
            /\ \A a \in 1..Len(pat) : pat[a] < k
            /\ Range(pat) \cap Consumed = {}
            /\ Range(pat) \cup Consumed = RowPattern(mat, k)
            /\ \A a, b \in 1..Len(pat) :
                  pat[b] \in Filled(pat[a]) => a < b
            /\ \A a \in 1..Len(pat) :
                  Filled(pat[a]) \subseteq {pat[b] : b \in (a + 1)..Len(pat)}

\* an update is about to consume the pattern of row 2: column 0, which
\* holds row 1, then column 1, which the permuted column 2 does not store
\* (it is in the pattern as an ancestor of 0)
PatternIsTopologicalWitness ==
    /\ pc = "num_pat"
    /\ last_call = "update"
    /\ k = 2
    /\ pattern_workspace = <<0, 1>>
    /\ 1 \in Filled(0)
    /\ 1 \notin PermutedRows(mat, 2)

\* C20: on the analysed pattern the accumulator, which is cleared only
\* where it was touched, is entirely zero whenever a column ends (at the
\* pivot check, between columns, on return and on SingularMatrix); while a
\* column's pattern is being consumed its nonzero entries all sit at
\* positions still waiting in the pattern.
AccumulatorIsClean ==
    /\ (pc = "num_pat" /\ pattern_workspace = <<>>) =>
          \A i \in Nodes : y_workspace[i] = Zero
    /\ pc \in {"num_col", "factorized"} =>
          \A i \in Nodes : y_workspace[i] = Zero
    /\ err = "SingularMatrix" => \A i \in Nodes : y_workspace[i] = Zero
    /\ pc = "num_pat" =>
          \A i \in Nodes :
             y_workspace[i] # Zero => i \in Range(pattern_workspace)

\* the pattern of row 2 has been consumed in an update: both columns 0 and
\* 1 were scattered into or subtracted into, with nonzero values, and the
\* column is at its pivot check
AccumulatorIsCleanWitness ==
    /\ pc = "num_pat"
    /\ last_call = "update"
    /\ pattern_workspace = <<>>
    /\ k = 2
    /\ Consumed = {0, 1}
    /\ 1 \in Filled(0)
    /\ \A p \in DOMAIN l_data : l_data[p] # Zero

\* the entry (i, j) of I + l in the triangular solves
TriUnit(i, j) == IF i = j THEN Rat(1) ELSE Value(mat, i, j)

\* the entry i of (I + l) * v, of (I + l)^T * v
TriTimes(v, i) ==
    SumFn([j \in 0..(TriDim - 1) |-> RMul(TriUnit(i, j), v[j])], 0, TriDim - 1)
TriTransposedTimes(v, i) ==
    SumFn([j \in 0..(TriDim - 1) |-> RMul(TriUnit(j, i), v[j])], 0, TriDim - 1)

\* C13: for every strictly lower triangular CSC matrix l with ascending row
\* indices and every vector b, ldl_lsolve(l, x) with x initially b ends
\* with (I + l) * x = b exactly.  The columns are taken in ascending order:
\* when the loop is at column k the rows 0..k of the system already hold.
LsolveSolves ==
    /\ pc = "lsolved" =>
          /\ \A i \in 0..(TriDim - 1) : TriTimes(x, i) = rhs[i]
          /\ x = ldl_lsolve(l_colptr, l_indices, l_data, rhs, 0)
    /\ pc = "lsolve" =>
          \A i \in 0..k :
             RAdd(x[i], SumFn([j \in 0..(i - 1) |->
                                  RMul(TriUnit(i, j), x[j])], 0, i - 1)) = rhs[i]

\* ldl_lsolve has ended on a matrix that stores every entry below its
\* diagonal, having changed every entry of x but the first
LsolveSolvesWitness ==
    /\ pc = "lsolved"
    /\ TriDim = MaxDim
    /\ Cardinality(DOMAIN l_indices) = Cardinality(Lower(TriDim))
    /\ \A i \in 1..(TriDim - 1) : x[i] # rhs[i]

\* C14: for every strictly lower triangular CSC matrix l and every vector
\* b, ldl_ltsolve(l, x) with x initially b ends with (I + l)^T * x = b
\* exactly.  The columns are taken in descending order, each step writing
\* x[k] only, once the whole of column k has been accumulated: when the
\* loop is at column k the rows above k of the system already hold.
LtsolveSolves ==
    /\ pc = "ltsolved" =>
          /\ \A i \in 0..(TriDim - 1) : TriTransposedTimes(x, i) = rhs[i]
          /\ x = ldl_ltsolve(l_colptr, l_indices, l_data, rhs, TriDim - 1)
    /\ pc = "ltsolve" =>
          /\ \A i \in (k + 1)..(TriDim - 1) : TriTransposedTimes(x, i) = rhs[i]
          /\ \A i \in 0..k : x[i] = rhs[i]

\* ldl_ltsolve has ended on a matrix that stores every entry below its
\* diagonal, having changed every entry of x but the last
LtsolveSolvesWitness ==
    /\ pc = "ltsolved"
    /\ TriDim = MaxDim
    /\ Cardinality(DOMAIN l_indices) = Cardinality(Lower(TriDim))
    /\ \A i \in 0..(TriDim - 2) : x[i] # rhs[i]

\* the number of outer slices, and the bound of the inner indices, of a
\* compressed matrix
OuterDim(m) == IF m.storage = "CSC" THEN m.ncols ELSE m.nrows
InnerDim(m) == IF m.storage = "CSC" THEN m.nrows ELSE m.ncols

\* the stored entries <<row, col, value>> of a compressed matrix
StoredAt(m) ==
    UNION {{IF m.storage = "CSC" THEN <<m.indices[p], j, m.data[p]>>
            ELSE <<j, m.indices[p], m.data[p]>> :
               p \in m.indptr[j]..(m.indptr[j + 1] - 1)} :
           j \in 0..(OuterDim(m) - 1)}

\* a compressed matrix in canonical form: the pointers start at 0, never
\* decrease and end at the number of entries; every slice has strictly
\* ascending inner indices within the shape
WellFormed(m) ==
    /\ DOMAIN m.indptr = 0..OuterDim(m)
    /\ m.indptr[0] = 0
    /\ \A j \in 0..(OuterDim(m) - 1) : m.indptr[j] <= m.indptr[j + 1]
    /\ DOMAIN m.indices = 0..(m.indptr[OuterDim(m)] - 1)
    /\ DOMAIN m.data = DOMAIN m.indices
    /\ \A j \in 0..(OuterDim(m) - 1) :
          \A p \in m.indptr[j]..(m.indptr[j + 1] - 1) :
             /\ m.indices[p] < InnerDim(m)
             /\ (p + 1 < m.indptr[j + 1]) => m.indices[p] < m.indices[p + 1]

\* the sum of the values the triplets p.. of t give for location (r, c)
RECURSIVE TripletSum(_, _, _, _)
TripletSum(t, r, c, p) ==
    IF p >= VecLen(t.data) THEN Zero
    ELSE RAdd(IF t.row_inds[p] = r /\ t.col_inds[p] = c THEN t.data[p] ELSE Zero,
              TripletSum(t, r, c, p + 1))

\* m is the matrix of the triplets t: the same shape, the distinct
\* locations of the triplets as stored locations, each with the sum of the
\* values given for it
IsMatrixOf(t, m) ==
    /\ m.nrows = t.rows
    /\ m.ncols = t.cols
    /\ WellFormed(m)
    /\ {<<e[1], e[2]>> : e \in StoredAt(m)}
          = {<<t.row_inds[p], t.col_inds[p]>> : p \in DOMAIN t.data}
    /\ \A e \in StoredAt(m) : e[3] = TripletSum(t, e[1], e[2], 0)

\* t with its triplets in the order f gives
Reordered(t, f) ==
    [t EXCEPT !.row_inds = [p \in DOMAIN t.data |-> t.row_inds[f[p]]],
              !.col_inds = [p \in DOMAIN t.data |-> t.col_inds[f[p]]],
              !.data = [p \in DOMAIN t.data |-> t.data[f[p]]]]

\* the orders the triplets of t are compared in: all of them for up to
\* MaxNnz triplets
Orders(t) ==
    IF VecLen(t.data) <= MaxNnz THEN Perms(VecLen(t.data)) ELSE {}

\* what CsMatOwned::new_csc((4, 4), ...) of the tests triplet_unordered,
\* triplet_additions and triplet_to_csr is
ExpectedCsc ==
    [storage |-> "CSC", nrows |-> 4, ncols |-> 4,
     indptr |-> VecOf(<<0, 2, 3, 4, 6>>),
     indices |-> VecOf(<<0, 1, 0, 3, 2, 3>>),
     data |-> VecOf(<<Rat(1), Rat(3), Rat(2), Rat(5), Rat(4), Rat(6)>>)]

\* every stored index of the triplet matrix lies within its shape
WithinShape(t) ==
    /\ \A p \in DOMAIN t.row_inds : t.row_inds[p] < t.rows
    /\ \A p \in DOMAIN t.col_inds : t.col_inds[p] < t.cols

\* what holds of a conversion that has returned: the result is the
\* canonical matrix of the triplets, in the storage asked for, whatever the
\* order of the triplets, and the one the tests expect
ConversionIsCanonical ==
    /\ converted.storage = (IF tri_call = "to_csc" THEN "CSC" ELSE "CSR")
    /\ IsMatrixOf(triplet_mat, converted)
    /\ \A f \in Orders(triplet_mat) :
          converted = (IF tri_call = "to_csc"
                       THEN to_csc(Reordered(triplet_mat, f)).m
                       ELSE to_csr(Reordered(triplet_mat, f)).m)
    /\ (triplet_mat \in {TripletUnordered, TripletAdditions}
          /\ tri_call = "to_csc") => converted = ExpectedCsc

\* C15: for every triplet matrix, to_csc returns the canonical CSC matrix
\* of the same shape whose stored locations are the distinct locations of
\* the triplets (stored zeros included), each with the sum of the values
\* given for it, rows strictly ascending in every column, whatever the
\* order of the triplets; to_csr returns the same matrix in CSR storage.
ToCscIsCanonical ==
    tri_call \in {"to_csc", "to_csr"} =>
        /\ tri_err = "none"
        /\ ConversionIsCanonical

\* C15, what the code does: the conversions return that matrix for every
\* triplet matrix whose indices lie within its shape, and panic on an
\* index out of bounds for every other (which set_triplet can make).
ToCscIsCanonicalWithinShape ==
    tri_call \in {"to_csc", "to_csr"} =>
        IF WithinShape(triplet_mat)
        THEN tri_err = "none" /\ ConversionIsCanonical
        ELSE tri_err = "OutOfBounds" /\ converted = None

\* to_csc has panicked on a triplet matrix that set_triplet gave a row
\* index equal to the number of rows
ToCscOutsideShape ==
    /\ tri_call = "to_csc"
    /\ tri_err = "OutOfBounds"
    /\ \E p \in DOMAIN triplet_mat.row_inds :
          triplet_mat.row_inds[p] = triplet_mat.rows

\* to_csc has returned for three triplets of a matrix with two rows, two
\* of them at one location of row 0, with values that sum to zero, so
\* that row 1 was moved down when the rows were compressed
ToCscSummedAndCompressed ==
    /\ tri_call = "to_csc"
    /\ tri_err = "none"
    /\ VecLen(triplet_mat.data) = 3
    /\ VecLen(converted.data) = 2
    /\ \E p, q \in DOMAIN triplet_mat.data :
          /\ p # q
          /\ triplet_mat.row_inds[p] = 0 /\ triplet_mat.row_inds[q] = 0
          /\ triplet_mat.col_inds[p] = triplet_mat.col_inds[q]
          /\ triplet_mat.data[p] = Rat(1) /\ triplet_mat.data[q] = Rat(0 - 1)
    /\ \E p \in DOMAIN triplet_mat.data : triplet_mat.row_inds[p] = 1

\* the locations the sparse matrix stores
StoredLocations(m) == {<<e[1], e[2]>> : e \in StoredAt(m)}

\* C16: once assign_to_dense has returned, every stored entry (i, j, v) of
\* the sparse matrix, CSR or CSC, is in the array at position (i, j), and
\* every entry of the array at a position the sparse matrix does not store
\* is as it was before the call.
AssignWritesStoredEntries ==
    (dense_call = "assign_to_dense" /\ dense_err = "none") =>
        /\ array.shape = array_before.shape
        /\ \A e \in StoredAt(spmat) :
              /\ <<e[1], e[2]>> \in DOMAIN array.at
              /\ array.at[<<e[1], e[2]>>] = e[3]
        /\ \A ij \in DOMAIN array.at :
              ij \notin StoredLocations(spmat) =>
                 array.at[ij] = array_before.at[ij]

\* C16, what the code does: however the call ends, the array keeps its
\* shape and every entry at a position the matrix does not store; a call
\* that returns has written every stored entry whose position the array
\* has, which is every stored entry when the shapes are equal; the calls
\* of test to_dense give the identity.
AssignWritesWithinArray ==
    dense_call = "assign_to_dense" =>
        /\ array.shape = array_before.shape
        /\ DOMAIN array.at = DOMAIN array_before.at
        /\ \A ij \in DOMAIN array.at :
              \/ array.at[ij] = array_before.at[ij]
              \/ \E e \in StoredAt(spmat) :
                    ij = <<e[1], e[2]>> /\ array.at[ij] = e[3]
        /\ dense_err = "none" =>
              /\ \A e \in StoredAt(spmat) :
                    <<e[1], e[2]>> \in DOMAIN array.at =>
                       array.at[<<e[1], e[2]>>] = e[3]
              /\ array.shape = <<spmat.nrows, spmat.ncols>> =>
                    StoredLocations(spmat) \subseteq DOMAIN array.at
              /\ (array_before = Zeros(3, 3) /\ spmat.nrows = 3) =>
                    array = ArrayEye(3)
        /\ dense_err = "Dimension mismatch" => array = array_before

\* assign_to_dense has returned for a square CSC matrix and an array with
\* fewer columns, without writing an entry the matrix stores in its last
\* column
AssignDroppedAnEntry ==
    /\ dense_call = "assign_to_dense"
    /\ dense_err = "none"
    /\ spmat.storage = "CSC"
    /\ array.shape[2] < spmat.ncols
    /\ \E e \in StoredAt(spmat) : e[2] = spmat.ncols - 1 /\ e[3] = Rat(1)

\* assign_to_dense has returned for a CSR matrix and an array of its shape
\* that held a nonzero where the matrix stores nothing and another where
\* it stores a zero
AssignKeptAndOverwrote ==
    /\ dense_call = "assign_to_dense"
    /\ dense_err = "none"
    /\ spmat.storage = "CSR"
    /\ array.shape = <<spmat.nrows, spmat.ncols>>
    /\ \E ij \in DOMAIN array.at :
          ij \notin StoredLocations(spmat) /\ array.at[ij] = Rat(5)
    /\ \E e \in StoredAt(spmat) :
          e[3] = Rat(0) /\ array_before.at[<<e[1], e[2]>>] = Rat(5)

\* the three arrays of the triplet matrix t have the same length
SameLengths(t) ==
    /\ VecLen(t.row_inds) = VecLen(t.col_inds)
    /\ VecLen(t.col_inds) = VecLen(t.data)

\* C23: every triplet matrix reached through new, with_capacity,
\* from_triplets, add_triplet and set_triplet has its three arrays of the
\* same length, every stored row index below rows and every stored column
\* index below cols; a call of from_triplets that panics has made no
\* matrix.
TripletWithinShape ==
    /\ triplet_mat # None =>
          /\ SameLengths(triplet_mat)
          /\ WithinShape(triplet_mat)
    /\ (tri_call = "from_triplets" /\ tri_err # "none") => triplet_mat = None

\* C23, what the code does: the three arrays always have the same length;
\* from_triplets and add_triplet panic exactly on an index outside the
\* shape (from_triplets also on unequal lengths) and then leave no matrix,
\* or the matrix as it was; only a set_triplet that returns can take
\* the matrix from within its shape to outside it.
TripletRejects ==
    [][/\ triplet_mat' # None => SameLengths(triplet_mat')
       /\ (tri_call' = "from_triplets" /\ tri_err' # "none") =>
             triplet_mat' = None
       /\ (tri_call' = "from_triplets" /\ tri_err' = "none") =>
             WithinShape(triplet_mat')
       /\ (tri_call' = "add_triplet" /\ tri_err' # "none") =>
             triplet_mat' = triplet_mat
       /\ (tri_call' = "add_triplet" /\ tri_err' = "none"
              /\ WithinShape(triplet_mat)) => WithinShape(triplet_mat')
       /\ (triplet_mat # None /\ triplet_mat' # None
              /\ WithinShape(triplet_mat) /\ ~WithinShape(triplet_mat')) =>
             (tri_call' = "set_triplet" /\ tri_err' = "none")]_vars

\* set_triplet has returned and left a row or column index outside the
\* shape in the triplet matrix
SetTripletOutsideShape ==
    /\ tri_call = "set_triplet"
    /\ tri_err = "none"
    /\ triplet_mat # None
    /\ SameLengths(triplet_mat)
    /\ ~WithinShape(triplet_mat)

\* add_triplet has panicked on an index outside the shape and the matrix
\* still holds a triplet
AddTripletRejected ==
    /\ tri_call = "add_triplet"
    /\ tri_err # "none"
    /\ triplet_mat # None
    /\ VecLen(triplet_mat.data) > 0

\* the shape of the sparse matrix handed to assign_to_dense
SpShape == <<spmat.nrows, spmat.ncols>>

\* C24: assign_to_dense fails with "Dimension mismatch" exactly when the
\* shape of the array differs from the shape of the sparse matrix; for
\* array and matrix of one shape, square or not, it returns and has written
\* every stored entry.
MismatchExactlyOnDifferentShapes ==
    dense_call = "assign_to_dense" =>
        /\ (dense_err = "Dimension mismatch") <=> (array.shape # SpShape)
        /\ array.shape = SpShape =>
              /\ dense_err = "none"
              /\ \A e \in StoredAt(spmat) :
                    array.at[<<e[1], e[2]>>] = e[3]

\* C24, what the code does: the call fails with "Dimension mismatch"
\* exactly when the matrix is not square or its dimension is not the
\* number of rows of the array; the number of columns of the array is
\* not looked at.
MismatchOnFirstDimensionOnly ==
    dense_call = "assign_to_dense" =>
        /\ (dense_err = "Dimension mismatch") <=>
              (spmat.ncols # array.shape[1] \/ spmat.nrows # array.shape[1])
        /\ (array.shape = SpShape /\ spmat.nrows = spmat.ncols) =>
              dense_err = "none"
        /\ dense_err = "OutOfBounds" =>
              (spmat.storage = "CSR" /\ array.shape[2] < spmat.ncols)

\* assign_to_dense has failed with "Dimension mismatch" for an array and
\* a matrix of one shape that is not square
MismatchOnEqualShapes ==
    /\ dense_call = "assign_to_dense"
    /\ dense_err = "Dimension mismatch"
    /\ array.shape = SpShape
    /\ spmat.nrows # spmat.ncols

\* assign_to_dense has returned for an array whose shape is not the
\* shape of the matrix
ReturnedOnDifferentShapes ==
    /\ dense_call = "assign_to_dense"
    /\ dense_err = "none"
    /\ array.shape # SpShape

\* the slots of l_indices and l_data that column i of L holds entries in
FilledSlots(i) == l_colptr[i]..(l_colptr[i] + l_nz[i] - 1)

\* C21: in the 'pattern loop every slot the multiply-accumulate over the
\* column on top of the pattern reads has been written earlier in the pass
\* that runs; every column of the pattern is before column k, so its fill
\* counter was set to zero earlier in this pass, and the slots each column
\* before k counts as filled have all been written in this pass.
ReadsOnlyWrittenSlots ==
    /\ (pc = "num_pat" /\ pattern_workspace # <<>>) =>
          NumReads(Work, l_colptr) \subseteq written
    /\ pc = "num_pat" =>
          /\ \A i \in Range(pattern_workspace) : i < k
          /\ \A i \in Nodes : i <= k => FilledSlots(i) \subseteq written
    /\ pc = "num_col" =>
          \A i \in Nodes : i < k => FilledSlots(i) \subseteq written

\* an update, whose storage holds the entries of the pass before it, is
\* about to read a slot of the column on top of the pattern
ReadsOnlyWrittenSlotsWitness ==
    /\ pc = "num_pat"
    /\ last_call = "update"
    /\ pattern_workspace # <<>>
    /\ NumReads(Work, l_colptr) # {}
    /\ written # DOMAIN l_indices

\* the structure is what the analysis of the matrix computes; no fill
\* counter passes the count of the analysis, and after a pass that has
\* succeeded the counts are those of the analysis
StructureIsTheAnalysis ==
    last_call \in {"factor", "update"} =>
        /\ parents = SymbolicOf(mat, perm).parents
        /\ l_colptr = ColPtrOf(SymbolicOf(mat, perm).l_nz, Dim)
        /\ \A i \in Nodes : l_nz[i] <= SymbolicOf(mat, perm).l_nz[i]
        /\ pc = "factorized" => l_nz = SymbolicOf(mat, perm).l_nz

\* no step from the end of the analysis on changes the column pointers, the
\* parents or the permutation, nor what problem_size() and nnz() return
StepsKeepStructure ==
    [][(pc \in {"symbolic", "num_col", "num_pat", "factorized"}) =>
          /\ l_colptr' = l_colptr
          /\ parents' = parents
          /\ nb_nodes(parents') = nb_nodes(parents)
          /\ l_colptr'[nb_nodes(parents')] = l_colptr[nb_nodes(parents)]
          /\ perm' = perm]_vars

PassFailed ==
    /\ pc = "failed"
    /\ last_call \in {"factor", "update"}
    /\ l_colptr[Dim] > 0

====
